---- MODULE Spec2Model ----
(***************************************************************************)
(* Mark-and-sweep mirror synchronizers of grafana-monitor                   *)
(* (grafana_python/instance_principal_v): adb_list, dbcs_list,             *)
(* instance_list, lb_list, adb_backup and dbcs_backup.                     *)
(*                                                                         *)
(* One run of a script walks its targets (the compartments of the tenancy, *)
(* or the configured database OCIDs), lists the resources of each target   *)
(* through the cloud API, upserts every listed resource into the mirror    *)
(* table, and finally deletes the rows it has not seen.                    *)
(***************************************************************************)
EXTENDS Integers, FiniteSets, Sequences, TLC

\* ------------------------------------------------------------------------
\* Bounds of the model
\* ------------------------------------------------------------------------
\* number of runs of the script that a behaviour contains
MaxRuns == 2
\* longest burst of consecutive HTTP 429 answers the upstream gives to one call
MaxAttempts == 3
\* latest timestamp of the clock of the store specification
MaxClock == 3
\* number of times the hierarchy paths of one set of nodes are resolved
MaxResolves == 2
\* number of items on one page of a listing (dbcs_backup asks for limit=1000;
\* adb_backup takes the page size of the service)
PageLimit == 1
\* number of items in one answer of the usage API
MaxItems == 2

\* ------------------------------------------------------------------------
\* The scripts and the world they run in
\* ------------------------------------------------------------------------
Inventory == {"adb_list", "dbcs_list", "instance_list", "lb_list"}
Backup == {"adb_backup", "dbcs_backup"}
Scripts == Inventory \cup Backup

\* a scope is <<TENANCY_OCID, OCI_REGION>>: two regions of one tenancy
Scopes == {<<"t1", "r1">>, <<"t1", "r2">>}

\* the targets a run iterates over, in loop order
Targets == <<"c1", "c2">>
TargetSet == {Targets[k] : k \in 1..Len(Targets)}

\* resource ids (OCIDs are globally unique: each lives in one scope and target)
Ids == {"a", "b", "c", "d"}
Home(i) ==
  CASE i = "a" -> [scope |-> <<"t1", "r1">>, target |-> "c1"]
    [] i = "b" -> [scope |-> <<"t1", "r1">>, target |-> "c1"]
    [] i = "c" -> [scope |-> <<"t1", "r1">>, target |-> "c2"]
    [] OTHER   -> [scope |-> <<"t1", "r2">>, target |-> "c1"]

\* what a complete listing of target t in scope s returns, given the
\* resources that exist upstream
Listing(up, s, t) == {i \in up : Home(i).scope = s /\ Home(i).target = t}

\* The listing endpoints are paginated: the items come in a fixed order,
\* PageLimit to a page, and a page that is not the last carries the
\* opc-next-page cursor.
IdOrder == <<"a", "b", "c", "d">>
Rank(i) == CHOOSE k \in 1..Len(IdOrder) : IdOrder[k] = i
Position(items, i) == Cardinality({j \in items : Rank(j) <= Rank(i)})
Page(items, n) ==
  {i \in items : Position(items, i) \in ((n - 1) * PageLimit + 1)..(n * PageLimit)}
HasNextPage(items, n) == Cardinality(items) > n * PageLimit

\* What the n-th listing request of a script for one target delivers.
\*   inventory scripts: oci.pagination.list_call_get_all_results(...).data,
\*     the items of all pages;
\*   adb_backup: client.list_autonomous_database_backups(...).data, the items
\*     of the one response;
\*   dbcs_backup: db_client.list_backups(page=next_page, limit=1000).data
Fetched(sc, items, n) == IF sc \in Backup THEN Page(items, n) ELSE items

\* dbcs_backup alone reads the opc-next-page header and asks for more
FollowsCursor(sc) == sc = "dbcs_backup"

\* ------------------------------------------------------------------------
\* Remote calls
\* ------------------------------------------------------------------------
\* The upstream's behaviour towards one call: the first thr invocations are
\* answered 429, the next one with final.
Plans ==
  {[thr |-> k, final |-> "ok"] : k \in 0..(MaxAttempts - 1)}
    \cup {[thr |-> 0, final |-> "error"]}
    \cup {[thr |-> MaxAttempts, final |-> "throttled"]}

\* answer to the n-th invocation of a call under plan p
Response(p, n) == IF n <= p.thr THEN "throttled" ELSE p.final

\* bookkeeping of one remote call: its plan, how often the script invoked the
\* operation, and whether the script slept after it
NoCall == [thr |-> 0, final |-> "none", invoked |-> 0, slept |-> FALSE]
CallRec(p, n, s) ==
  [thr |-> p.thr, final |-> p.final, invoked |-> n, slept |-> s]

\* ------------------------------------------------------------------------
\* What each script does with the answer of its listing call.
\*   "proceed"     the items are processed
\*   "skip"        the target is skipped, the loop goes on
\*   "sleep_skip"  time.sleep(3), then the target is skipped, the loop goes on
\*   "raise"       the exception leaves main(): the run is aborted
\* ------------------------------------------------------------------------
\* adb_list with every ServiceError handled as if it were a 429
AdbListAnyErrorAs429(r) == IF r = "ok" THEN "proceed" ELSE "sleep_skip"

\* adb_list: except ServiceError: 429 -> sleep(3), continue; otherwise raise
AdbListOnListing(r) ==
  CASE r = "ok"        -> "proceed"
    [] r = "throttled" -> "sleep_skip"
    [] OTHER           -> "raise"

\* dbcs_list: as adb_list; any other Exception is re-raised as well
DbcsListOnListing(r) ==
  CASE r = "ok"        -> "proceed"
    [] r = "throttled" -> "sleep_skip"
    [] OTHER           -> "raise"

\* instance_list: list_instances() catches every Exception and returns [],
\* and main() continues on an empty list
InstanceListOnListing(r) == IF r = "ok" THEN "proceed" ELSE "skip"

\* lb_list: list_lbs() catches every Exception and returns []
LbListOnListing(r) == IF r = "ok" THEN "proceed" ELSE "skip"

\* adb_backup: except Exception around get_all_backups(): log, continue
AdbBackupOnListing(r) == IF r = "ok" THEN "proceed" ELSE "skip"

\* dbcs_backup with the failed listing logged and the loop continued
DbcsBackupContinues(r) == IF r = "ok" THEN "proceed" ELSE "skip"

\* dbcs_backup: except Exception around list_backups(): log, raise
DbcsBackupOnListing(r) == IF r = "ok" THEN "proceed" ELSE "raise"

OnListing(sc, r) ==
  CASE sc = "adb_list"      -> AdbListOnListing(r)
    [] sc = "dbcs_list"     -> DbcsListOnListing(r)
    [] sc = "instance_list" -> InstanceListOnListing(r)
    [] sc = "lb_list"       -> LbListOnListing(r)
    [] sc = "adb_backup"    -> AdbBackupOnListing(r)
    [] OTHER                -> DbcsBackupOnListing(r)

\* dbcs_list, upsert_dbcs(): list_db_homes / list_databases are called for
\* every DB system before its row is written; main() handles their failure
DbcsOnSubListing(r) ==
  CASE r = "ok"        -> "proceed"
    [] r = "throttled" -> "sleep_skip"
    [] OTHER           -> "raise"

\* a failed statement is logged and the loop goes on
OnStoreErrorSwallowed(sc) == "skip"

\* What each script does when a statement sent to MySQL fails (any
\* pymysql exception): in all six the except block around the upserts, and
\* the one around the sweep, logs the error and re-raises it.
OnStoreError(sc) == "raise"

\* ------------------------------------------------------------------------
\* The mirror table: a set of rows, at most one per id (the unique key).
\* tenancy, region: the scope columns.  adb_backup_status and
\* dbcs_backup_status have no such columns: there the two fields only record
\* the scope of the run that inserted the row, and no statement reads them.
\* comp: the owning compartment (adb_name / db_name in the backup tables).
\* refreshed: last_refreshed_utc (created_at in adb_backup_status; 0 in
\* dbcs_backup_status, which has no timestamp column).
\* ------------------------------------------------------------------------
\* the record built without the tenancy and region of the run
NewRowFixedScope(sc, s, t, i, ts) ==
  [id |-> i, tenancy |-> "t1", region |-> "r1", comp |-> t,
   refreshed |-> IF sc = "dbcs_backup" THEN 0 ELSE ts]

NewRow(sc, s, t, i, ts) ==
  [id |-> i, tenancy |-> s[1], region |-> s[2], comp |-> t,
   refreshed |-> IF sc = "dbcs_backup" THEN 0 ELSE ts]

\* ON DUPLICATE KEY UPDATE of each script: the row that results from the
\* stored row old and the inserted row new
AdbListOnDuplicate(old, new) == new

DbcsListOnDuplicate(old, new) ==
  [new EXCEPT !.tenancy = old.tenancy, !.region = old.region,
              !.comp = old.comp]

InstanceListOnDuplicate(old, new) ==
  [new EXCEPT !.tenancy = old.tenancy, !.region = old.region,
              !.comp = old.comp]

LbListOnDuplicate(old, new) ==
  [new EXCEPT !.tenancy = old.tenancy, !.region = old.region,
              !.comp = old.comp]

AdbBackupOnDuplicate(old, new) ==
  [new EXCEPT !.tenancy = old.tenancy, !.region = old.region,
              !.comp = old.comp]

DbcsBackupOnDuplicate(old, new) ==
  [new EXCEPT !.tenancy = old.tenancy, !.region = old.region]

\* ON DUPLICATE KEY UPDATE without the line of last_refreshed_utc
OnDuplicateKeepsRefreshed(sc, old, new) ==
  [new EXCEPT !.refreshed = old.refreshed]

OnDuplicate(sc, old, new) ==
  CASE sc = "adb_list"      -> AdbListOnDuplicate(old, new)
    [] sc = "dbcs_list"     -> DbcsListOnDuplicate(old, new)
    [] sc = "instance_list" -> InstanceListOnDuplicate(old, new)
    [] sc = "lb_list"       -> LbListOnDuplicate(old, new)
    [] sc = "adb_backup"    -> AdbBackupOnDuplicate(old, new)
    [] OTHER                -> DbcsBackupOnDuplicate(old, new)

\* a plain INSERT into a table without a unique key
UpsertAlwaysInserts(sc, m, new) == m \cup {new}

\* INSERT ... ON DUPLICATE KEY UPDATE
Upsert(sc, m, new) ==
  LET dup == {r \in m : r.id = new.id}
  IN  IF dup = {}
        THEN m \cup {new}
        ELSE (m \ dup) \cup {OnDuplicate(sc, old, new) : old \in dup}

\* the id is marked before the statement is executed
MarkBeforeUpsert(ids, i, st) == ids \cup {i}

\* seen_ids.add(id), the statement after cur.execute(UPSERT_SQL, row): it is
\* reached only when the statement has not raised
Mark(ids, i, st) == IF st = "ok" THEN ids \cup {i} ELSE ids

\* the inventory sweep with the delete-all branch left out
InventorySweepSkipsEmpty(m, s, ids) ==
  IF ids # {}
    THEN {r \in m : ~(r.tenancy = s[1] /\ r.region = s[2] /\ r.id \notin ids)}
    ELSE m

\* the inventory sweep with IN written for NOT IN
InventorySweepInverted(m, s, ids) ==
  IF ids # {}
    THEN {r \in m : ~(r.tenancy = s[1] /\ r.region = s[2] /\ r.id \in ids)}
    ELSE {r \in m : ~(r.tenancy = s[1] /\ r.region = s[2])}

\* The sweep of the inventory scripts:
\*   DELETE ... WHERE tenancy_ocid = %s AND region = %s AND id NOT IN (seen)
\* and, when nothing was seen,
\*   DELETE ... WHERE tenancy_ocid = %s AND region = %s
InventorySweep(m, s, ids) ==
  IF ids # {}
    THEN {r \in m : ~(r.tenancy = s[1] /\ r.region = s[2] /\ r.id \notin ids)}
    ELSE {r \in m : ~(r.tenancy = s[1] /\ r.region = s[2])}

\* The sweep of the backup scripts: DELETE ... WHERE id NOT IN (seen), and no
\* statement at all when nothing was seen
BackupSweep(m, s, ids) ==
  IF ids # {}
    THEN {r \in m : ~(r.id \notin ids)}
    ELSE m

Sweep(sc, m, s, ids) ==
  IF sc \in Inventory THEN InventorySweep(m, s, ids) ELSE BackupSweep(m, s, ids)

\* whether the sweep sends a DELETE statement to the database
SweepDeletes(sc, ids) == sc \in Inventory \/ ids # {}

\* the ids of the rows of scope s, and of all rows
ScopeIds(m, s) == {r.id : r \in {x \in m : x.tenancy = s[1] /\ x.region = s[2]}}
AllIds(m) == {r.id : r \in m}

\* ------------------------------------------------------------------------
\* State
\* ------------------------------------------------------------------------
VARIABLES
  script,    \* the script whose runs are modelled
  upstream,  \* the resources that exist in the cloud
  mirror,    \* the mirror table of the script
  pc,        \* "idle", "list", "upsert", "sweep", "done" (main() returned)
             \* or "failed" (an exception left main())
  scope,     \* <<tenancy, region>> of the current run
  run,       \* number of runs started; the run timestamp run_ts
  idx,       \* position of the for-loop in Targets
  pending,   \* listed items of the current target not yet upserted
  seen,      \* the seen-set of the run
  returned,  \* ids that the listing calls of the run have returned
  pre,       \* the mirror table as it was when the run started
  calls,     \* per target: the listing call of the run (NoCall: not called)
  sub,       \* dbcs_list: the list_db_homes / list_databases call of the run
             \* that failed, the first throttled one, or else the last one
  swept,     \* the run has executed the DELETE of its sweep
  cursor,    \* dbcs_backup: number of the page the next request asks for
  repeat,    \* the run follows a completed run of the same scope, and the
             \* upstream has not changed in between
  fault      \* what has failed in the run: "none", "setup", "listing" (a
             \* listing call raised) or "store" (a statement failed)

syncVars == <<script, upstream, mirror, pc, scope, run, idx, pending, seen,
              returned, pre, calls, sub, swept, cursor, repeat, fault>>

\* The upsert statements on their own (specification SpecStore): one
\* statement after the other is executed against a table.
VARIABLES
  kind,      \* the script whose upsert statement is executed
  table,     \* the table
  last,      \* the record of the last upsert ({} before the first)
  was,       \* the table as it was before the last upsert
  again,     \* the last upsert repeated the record of the one before it
  now        \* the clock: UTC_TIMESTAMP(), utcnow()

storeVars == <<kind, table, last, was, again, now>>

\* filesystem_list (specification SpecFss)
VARIABLES
  fup,       \* the file storage resources that exist in the cloud
  ftab,      \* the four tables: per table the ids that have a row
  fpc,       \* "idle", "unit", "fs", "mt", "sweep", "done" or "failed"
  frun,      \* number of runs started
  fidx,      \* position of the loops over compartments and ADs in FssUnits
  fpend,     \* the listed file systems and mount targets not yet written
  fseen,     \* seen_fs_ids, seen_snapshot_ids, seen_mt_ids, seen_export_ids
  fwritten,  \* per table the ids the run has upserted
  fpre,      \* the tables as they were when the run started
  fswept,    \* number of DELETE statements of the sweep that were executed
  flast,     \* the last listing call of the run and its answer
  fwhy,      \* what made the run fail: "none", "setup", "listing", "store"
  fmarked,   \* the rows of oci_fss_snapshots whose deleted_at is not NULL
  fthr,      \* the listing calls of the run that were answered HTTP 429:
             \* <<call, what was listed>>
  flatest    \* latest_snapshot_id of the row of every file system ("null"
             \* for NULL and for a file system without a row)

fssVars == <<fup, ftab, fpc, frun, fidx, fpend, fseen, fwritten, fpre,
             fswept, flast, fwhy, fmarked, fthr, flatest>>

\* instance_volume (specification SpecVol)
VARIABLES
  vup,       \* the attached volumes and the volume backups that exist
  vtab,      \* instance_volume_latest and volume_backup_latest: the rows,
             \* each <<instance, volume or backup>>
  vpc,       \* "idle", "inst", "delvol", "insert", "delbak", "backups",
             \* "done" or "failed"
  vrun,      \* number of runs started
  vidx,      \* position of the loop in VolInstances
  vpend,     \* attached_now: the volumes still to insert, and those whose
             \* backups are still to list
  vpre,      \* the tables as they were when the run started
  vstate,    \* lifecycle_state of the attachment of every volume
  vres       \* per instance, how far the run has come with it: "none",
             \* "notfound" or "error" (the answer of get_instance), "ok"
             \* (get_instance answered), "done" (the iteration has completed)

volVars == <<vup, vtab, vpc, vrun, vidx, vpend, vpre, vstate, vres>>

\* the compartment path builders (specification SpecPath)
VARIABLES
  builder,   \* the script whose path builder is applied
  tree,      \* compartment_id of every compartment: its parent, or "null"
  present,   \* the compartments that the listing has put into the map
  paths,     \* the result: compartment id -> path
  prev,      \* the result of the resolution before the last one
  count      \* number of resolutions made

pathVars == <<builder, tree, present, paths, prev, count>>

\* two runs of one script at the same time (specification SpecPair)
VARIABLES
  cscript,   \* the script
  cup,       \* the resources that exist in the cloud while the runs last
  ctab,      \* the mirror table both runs write
  ctab0,     \* the table as it was before the runs
  crun       \* per run: scope, pc, idx, cursor, pending, seen, and clean
             \* (every listing call of the run so far was answered)

pairVars == <<cscript, cup, ctab, ctab0, crun>>

\* one run of insert_usage (specification SpecUsage)
VARIABLES
  ucoll,     \* the collation of the service column: "cs" tells upper case
             \* from lower case, "ci" does not
  utab,      \* the committed rows of oci_api_cost_daily_service_report
  upre,      \* the committed rows before the run
  uwork,     \* the rows as the open transaction of the run sees them
  udate,     \* target_date
  uitems,    \* response.data.items
  uparsed,   \* parsed
  uidx,      \* position of the insert loop in parsed
  upc        \* where the run is: "start", "delete", "insert", "commit",
             \* "done", "failed"

usageVars == <<ucoll, utab, upre, uwork, udate, uitems, uparsed, uidx, upc>>

\* one run of dbcs_backup over backups of several ages (specification
\* SpecLook)
VARIABLES
  lup,       \* the backups that exist in the cloud
  lstarted,  \* time_started of every backup
  ltab,      \* the table dbcs_backup_status
  ltab0,     \* the table as it was before the run
  lq         \* the run: scope, pc, idx, cursor, pending, seen, clean

lookVars == <<lup, lstarted, ltab, ltab0, lq>>

\* one run of a script that works through a configured list of OCIDs
\* (specification SpecList)
VARIABLES
  gscript,   \* "adb_backup", "dbcs_backup" or "instance_volume"
  gtargets,  \* ADB_OCIDS, DB_OCIDS, INSTANCE_OCIDS: the configured list
  gup,       \* what exists in the cloud
  gtab,      \* the rows of the tables of the script
  gtab0,     \* the rows before the run
  gpc,       \* "start", "setup", "loop", "sweep", "done" or "failed"
  gidx,      \* position of the for-loop in the list
  gseen      \* the seen-set of the run

listVars == <<gscript, gtargets, gup, gtab, gtab0, gpc, gidx, gseen>>

vars == <<syncVars, storeVars, fssVars, volVars, pathVars, pairVars, usageVars,
  lookVars, listVars>>

\* the variables that the actions of a specification leave alone
otherThanSync == <<storeVars, fssVars, volVars, pathVars, pairVars,
  usageVars,
  lookVars,
  listVars>>
otherThanStore == <<syncVars, fssVars, volVars, pathVars, pairVars,
  usageVars,
  lookVars,
  listVars>>
otherThanFss == <<syncVars, storeVars, volVars, pathVars, pairVars,
  usageVars,
  lookVars,
  listVars>>
otherThanVol == <<syncVars, storeVars, fssVars, pathVars, pairVars,
  usageVars,
  lookVars,
  listVars>>
otherThanPath == <<syncVars, storeVars, fssVars, volVars, pairVars,
  usageVars,
  lookVars,
  listVars>>
otherThanPair == <<syncVars, storeVars, fssVars, volVars, pathVars,
  usageVars,
  lookVars,
  listVars>>
otherThanUsage == <<syncVars, storeVars, fssVars, volVars, pathVars,
  pairVars,
  lookVars,
  listVars>>
otherThanLook == <<syncVars, storeVars, fssVars, volVars, pathVars,
  pairVars, usageVars,
  listVars>>
otherThanList == <<syncVars, storeVars, fssVars, volVars, pathVars,
  pairVars, usageVars, lookVars>>

NoCalls == [t \in TargetSet |-> NoCall]

\* the state of the variables of a run before the first run
SyncStart ==
  /\ upstream = {}
  /\ mirror = {}
  /\ pc = "idle"
  /\ scope = <<"t1", "r1">>
  /\ run = 0
  /\ idx = 1
  /\ pending = {}
  /\ seen = {}
  /\ returned = {}
  /\ pre = {}
  /\ calls = NoCalls
  /\ sub = NoCall
  /\ swept = FALSE
  /\ cursor = 1
  /\ repeat = FALSE
  /\ fault = "none"

StoreStart ==
  /\ table = {}
  /\ last = {}
  /\ was = {}
  /\ again = FALSE
  /\ now = 1

FssTables == {"fs", "snap", "mt", "ex"}
NoRows == [t \in FssTables |-> {}]
NoPending == [fs |-> {}, mt |-> {}]
NoListing == [call |-> "none", answer |-> "none"]

FssStart ==
  /\ fup = {}
  /\ ftab = NoRows
  /\ fpc = "idle"
  /\ frun = 0
  /\ fidx = 1
  /\ fpend = NoPending
  /\ fseen = NoRows
  /\ fwritten = NoRows
  /\ fpre = NoRows
  /\ fswept = 0
  /\ flast = NoListing
  /\ fwhy = "none"
  /\ fmarked = {}
  /\ fthr = {}
  /\ flatest = [f \in {"f1", "f2"} |-> "null"]

NoVolRows == [vol |-> {}, bak |-> {}]
NoVolumes == [ins |-> {}, bak |-> {}]
Volumes == {"v1", "v2"}
NoResults == [i \in {"i1", "i2"} |-> "none"]

VolStart ==
  /\ vup = {}
  /\ vtab = NoVolRows
  /\ vpc = "idle"
  /\ vrun = 0
  /\ vidx = 1
  /\ vpend = NoVolumes
  /\ vpre = NoVolRows
  /\ vstate = [v \in Volumes |-> "ATTACHED"]
  /\ vres = NoResults

\* the compartments below the tenancy, and a map without entries
NodeIds == {"n1", "n2", "n3"}
NoPaths == [n \in {} |-> <<>>]

PathStart ==
  /\ paths = NoPaths
  /\ prev = NoPaths
  /\ count = 0

\* the two processes, and the state of a run when its loop begins
Runners == {1, 2}
RunStart(s) ==
  [scope |-> s, pc |-> "list", idx |-> 1, cursor |-> 1, pending |-> {},
   seen |-> {}, clean |-> TRUE]

PairStart ==
  /\ ctab = ctab0
  /\ \A r \in Runners : crun[r] = RunStart(crun[r].scope)

\* a script with a configured list before the run
ListStart ==
  /\ gtab = gtab0
  /\ gpc = "start"
  /\ gidx = 1
  /\ gseen = {}

\* dbcs_backup before the run
LookStart ==
  /\ ltab = ltab0
  /\ lq = RunStart(<<"t1", "r1">>)

\* insert_usage before the run: nothing fetched, no transaction open
UsageStart ==
  /\ upre = utab
  /\ uwork = utab
  /\ udate = "d1"
  /\ uitems = <<>>
  /\ uparsed = <<>>
  /\ uidx = 1
  /\ upc = "start"

\* every specification of this module moves its own variables and holds the
\* others at their start
IdleExcept(f) ==
  /\ IF f = "sync" THEN TRUE ELSE script = "adb_list" /\ SyncStart
  /\ IF f = "store" THEN TRUE ELSE kind = "adb_list" /\ StoreStart
  /\ IF f = "fss" THEN TRUE ELSE FssStart
  /\ IF f = "vol" THEN TRUE ELSE VolStart
  /\ IF f = "path"
       THEN TRUE
       ELSE /\ builder = "adb_list"
            /\ tree = [n \in NodeIds |-> "null"]
            /\ present = {}
            /\ PathStart
  /\ IF f = "pair"
       THEN TRUE
       ELSE /\ cscript = "adb_list"
            /\ cup = {}
            /\ ctab0 = {}
            /\ crun = [r \in Runners |-> RunStart(<<"t1", "r1">>)]
            /\ PairStart
  /\ IF f = "usage"
       THEN TRUE
       ELSE /\ ucoll = "cs"
            /\ utab = {}
            /\ UsageStart
  /\ IF f = "list"
       THEN TRUE
       ELSE /\ gscript = "adb_backup"
            /\ gtargets = <<>>
            /\ gup = {}
            /\ gtab0 = {}
            /\ ListStart
  /\ IF f = "look"
       THEN TRUE
       ELSE /\ lup = {}
            /\ lstarted = [i \in Ids |-> [has |-> FALSE, t |-> 0]]
            /\ ltab0 = {}
            /\ LookStart

Init ==
  /\ script \in Scripts
  /\ SyncStart
  /\ IdleExcept("sync")

\* the for-loop moves to the next target (next_page = None), or leaves the
\* loop for the sweep
\* the loop asks for the same target again
AdvanceRequestsAgain ==
  /\ idx' = idx
  /\ cursor' = 1
  /\ pc' = "list"

Advance ==
  /\ idx' = idx + 1
  /\ cursor' = 1
  /\ pc' = IF idx < Len(Targets) THEN "list" ELSE "sweep"

\* the items of a page are done: dbcs_backup asks for the next page while the
\* response carried a cursor; otherwise the loop moves on
AfterPage ==
  IF FollowsCursor(script)
       /\ HasNextPage(Listing(upstream, scope, Targets[idx]), cursor)
    THEN /\ pc' = "list"
         /\ idx' = idx
         /\ cursor' = cursor + 1
    ELSE Advance

\* A run starts: main() of the script, up to the loop over the targets.
\* The upstream may have changed since the last run.  A failure of the
\* set-up (schema, tenancy, listing of the compartments) is logged and
\* re-raised before anything is written.
StartRun ==
  /\ pc \in {"idle", "done", "failed"}
  /\ run < MaxRuns
  /\ \E s \in Scopes, up \in SUBSET Ids, setup \in {"ok", "error"} :
       /\ scope' = s
       /\ upstream' = up
       /\ pc' = IF setup = "ok" THEN "list" ELSE "failed"
       /\ fault' = IF setup = "ok" THEN "none" ELSE "setup"
       /\ repeat' = (pc = "done" /\ s = scope /\ up = upstream)
  /\ run' = run + 1
  /\ idx' = 1
  /\ pending' = {}
  /\ seen' = {}
  /\ returned' = {}
  /\ pre' = mirror
  /\ calls' = NoCalls
  /\ sub' = NoCall
  /\ swept' = FALSE
  /\ cursor' = 1
  /\ UNCHANGED <<script, mirror>>
  /\ UNCHANGED otherThanSync

\* One iteration of the loop up to the upserts: the listing request for the
\* target (dbcs_backup: for one page of it) and the handling of its outcome.
\* The operation is invoked once.
\* adb_backup first calls get_adb_info() and skips the target when it fails.
ListCall ==
  /\ pc = "list"
  /\ \E p \in Plans, info \in IF script = "adb_backup" THEN BOOLEAN ELSE {TRUE} :
       LET t     == Targets[idx]
           r     == Response(p, 1)
           act   == OnListing(script, r)
           items == Fetched(script, Listing(upstream, scope, t), cursor)
       IN  IF ~info
             THEN /\ Advance
                  /\ UNCHANGED <<pending, returned, calls, fault>>
             ELSE /\ calls' = [calls EXCEPT ![t] = CallRec(p, 1, act = "sleep_skip")]
                  /\ fault' = IF act = "raise" THEN "listing" ELSE fault
                  /\ CASE act = "proceed" ->
                            /\ returned' = returned \cup items
                            /\ pending' = items
                            /\ IF items = {}
                                 THEN AfterPage
                                 ELSE /\ pc' = "upsert"
                                      /\ UNCHANGED <<idx, cursor>>
                       [] act = "raise" ->
                            /\ pc' = "failed"
                            /\ UNCHANGED <<idx, cursor, pending, returned>>
                       [] OTHER ->
                            /\ Advance
                            /\ UNCHANGED <<pending, returned>>
  /\ UNCHANGED <<script, upstream, mirror, scope, run, seen, pre, sub, swept,
                 repeat>>
  /\ UNCHANGED otherThanSync

\* One listed item is written: (dbcs_list: its DB homes and databases are
\* listed first,) the row is upserted and the id joins the seen-set.  A
\* failing statement (pymysql error) is logged and re-raised.
\* (adb_list also catches ServiceError around its upserts, but upsert_adb_row
\* makes no cloud call; instance_list's get_vnic_and_ips() swallows its
\* failures and only fills columns that are not modelled.)
UpsertItem ==
  /\ pc = "upsert"
  /\ \E i \in pending, st \in {"ok", "dberror"},
        sp \in IF script = "dbcs_list" THEN Plans ELSE {[thr |-> 0, final |-> "ok"]} :
       LET sr   == Response(sp, 1)
           sact == IF script = "dbcs_list" THEN DbcsOnSubListing(sr) ELSE "proceed"
           rest == pending \ {i}
       IN  /\ sub' = IF script = "dbcs_list"
                            /\ (sr = "error" \/ Response(sub, 1) # "throttled")
                       THEN CallRec(sp, 1, sact = "sleep_skip")
                       ELSE sub
           /\ CASE sact = "sleep_skip" ->
                     /\ Advance
                     /\ pending' = {}
                     /\ UNCHANGED <<mirror, seen, fault>>
                [] sact = "raise" ->
                     /\ pc' = "failed"
                     /\ fault' = "listing"
                     /\ UNCHANGED <<mirror, seen, idx, cursor, pending>>
                [] sact = "proceed" /\ st = "dberror"
                     /\ OnStoreError(script) = "raise" ->
                     /\ pc' = "failed"
                     /\ fault' = "store"
                     /\ seen' = Mark(seen, i, st)
                     /\ UNCHANGED <<mirror, idx, cursor, pending>>
                [] OTHER ->
                     /\ IF st = "dberror"
                          THEN /\ fault' = "store"
                               /\ UNCHANGED mirror
                          ELSE /\ mirror' = Upsert(script, mirror,
                                              NewRow(script, scope, Targets[idx], i, run))
                               /\ UNCHANGED fault
                     /\ seen' = Mark(seen, i, st)
                     /\ pending' = rest
                     /\ IF rest = {}
                          THEN AfterPage
                          ELSE /\ pc' = "upsert"
                               /\ UNCHANGED <<idx, cursor>>
  /\ UNCHANGED <<script, upstream, scope, run, returned, pre, calls, swept,
                 repeat>>
  /\ UNCHANGED otherThanSync

\* The sweep after the loop, and the end of main().
SweepStep ==
  /\ pc = "sweep"
  /\ \E st \in {"ok", "dberror"} :
       IF st = "dberror" /\ SweepDeletes(script, seen)
         THEN /\ pc' = IF OnStoreError(script) = "raise" THEN "failed" ELSE "done"
              /\ fault' = "store"
              /\ UNCHANGED <<mirror, swept>>
         ELSE /\ mirror' = Sweep(script, mirror, scope, seen)
              /\ swept' = SweepDeletes(script, seen)
              /\ pc' = "done"
              /\ UNCHANGED fault
  /\ UNCHANGED <<script, upstream, scope, run, idx, pending, seen, returned,
                 pre, calls, sub, cursor, repeat>>
  /\ UNCHANGED otherThanSync

Next == StartRun \/ ListCall \/ UpsertItem \/ SweepStep

Spec == Init /\ [][Next]_vars

TypeOK ==
  /\ script \in Scripts
  /\ upstream \subseteq Ids
  /\ AllIds(mirror) \subseteq Ids
  /\ pc \in {"idle", "list", "upsert", "sweep", "done", "failed"}
  /\ scope \in Scopes
  /\ run \in 0..MaxRuns
  /\ seen \subseteq Ids
  /\ pending \subseteq Ids
  /\ cursor \in 1..(Cardinality(Ids) + 1)
  /\ repeat \in BOOLEAN
  /\ fault \in {"none", "setup", "listing", "store"}

\* ------------------------------------------------------------------------
\* Specification SpecStore: the upsert statement of a script, executed again
\* and again.  The records are those a run can produce: the scope of an id is
\* fixed, the compartment of a resource (the name of the database of a
\* backup) can change between two runs, and the timestamp is the clock's.
\* ------------------------------------------------------------------------
\* a row without its refresh timestamp, and a table of such rows
BusinessOf(r) == [r EXCEPT !.refreshed = 0]
Business(m) == {BusinessOf(r) : r \in m}

\* the resources whose records are written: one of each scope
StoreIds == {"a", "d"}

StoreInit ==
  /\ kind \in Scripts
  /\ StoreStart
  /\ IdleExcept("store")

\* cur.execute(UPSERT_SQL, ...) with a record of resource i
StoreUpsert ==
  /\ \E i \in StoreIds, c \in TargetSet :
       LET new == NewRow(kind, Home(i).scope, c, i, now)
       IN  /\ table' = Upsert(kind, table, new)
           /\ last' = {new}
           /\ again' = (\E r \in last : BusinessOf(r) = BusinessOf(new))
  /\ was' = table
  /\ UNCHANGED <<kind, now>>
  /\ UNCHANGED otherThanStore

\* time passes
StoreTick ==
  /\ now < MaxClock
  /\ now' = now + 1
  /\ UNCHANGED <<kind, table, last, was, again>>
  /\ UNCHANGED otherThanStore

StoreNext == StoreUpsert \/ StoreTick

SpecStore == StoreInit /\ [][StoreNext]_vars

\* ------------------------------------------------------------------------
\* Specification SpecFss: filesystem_list.  A run walks the pairs of
\* compartment and availability domain; for each it lists the file systems
\* and the mount targets, lists the snapshots of every file system and the
\* exports of every mount target, upserts all of them into four tables, and
\* after the loops deletes from each table the rows it has not seen.
\* ------------------------------------------------------------------------
\* the iterations of "for comp in compartments: for ad in ads:", in order
FssUnits == <<"u1", "u2">>

\* the resources: file systems f1, f2, snapshots s1, s2, mount target m1
\* and export e1; the table each goes to, and what it is listed under
FssIds == {"f1", "f2", "s1", "s2", "m1", "e1"}
FssKind(x) ==
  CASE x \in {"f1", "f2"} -> "fs"
    [] x \in {"s1", "s2"} -> "snap"
    [] x = "m1"           -> "mt"
    [] OTHER              -> "ex"
FssParent(x) ==
  CASE x = "f1" -> "u1"
    [] x = "f2" -> "u2"
    [] x \in {"s1", "s2"} -> "f1"
    [] x = "m1" -> "u2"
    [] OTHER    -> "m1"

\* a snapshot exists with its file system, an export with its mount target;
\* f1 has no snapshot, s1 alone, or s1 and the younger s2
FssWorlds ==
  {up \in SUBSET FssIds :
     /\ \A x \in up : FssKind(x) \in {"snap", "ex"} => FssParent(x) \in up
     /\ "s2" \in up => "s1" \in up}

\* what a complete listing of the resources of kind k under p returns
FssListing(up, p, k) == {x \in up : FssKind(x) = k /\ FssParent(x) = p}

\* the answers of the service to a listing call: the items, HTTP 429,
\* HTTP 404, or any other failure
FssAnswers == {"ok", "throttled", "notfound", "error"}

\* list_file_systems: 429 -> sleep(3), continue with the next AD; else raise
FssOnFsListing(r) ==
  CASE r = "ok"        -> "proceed"
    [] r = "throttled" -> "sleep_skip"
    [] OTHER           -> "raise"

\* list_mount_targets: the same
FssOnMtListing(r) ==
  CASE r = "ok"        -> "proceed"
    [] r = "throttled" -> "sleep_skip"
    [] OTHER           -> "raise"

\* list_snapshots: 404 -> snaps = []; 429 -> sleep(3), snaps = []; else raise
FssOnSnapshots(r) ==
  CASE r = "ok"        -> "proceed"
    [] r = "notfound"  -> "empty"
    [] r = "throttled" -> "sleep_empty"
    [] OTHER           -> "raise"

\* list_exports: 429 -> sleep(3), continue with the next mount target;
\* else raise
FssOnExports(r) ==
  CASE r = "ok"        -> "proceed"
    [] r = "throttled" -> "sleep_skip"
    [] OTHER           -> "raise"

\* cur.execute(UPSERT_..._SQL, ...) for the resources xs
FssUpsert(rows, xs) == rows \cup xs

\* the ids are never added to the seen-set
FssMarkNothing(ids, xs) == ids

\* seen_..._ids.add(x)
FssMark(ids, xs) == ids \cup xs

\* UPSERT_SNAP_SQL: deleted_at is neither among the inserted columns (a new
\* row gets NULL) nor among the updated ones
FssSnapshotMarks(marked) == marked

\* the rows stay in the table (a sweep that would only mark them)
FssSweepKeepsRows(rows, ids) == rows

\* DELETE FROM t WHERE id NOT IN (seen), or DELETE FROM t when nothing was seen
FssSweepTable(rows, ids) ==
  IF ids # {} THEN {x \in rows : ~(x \notin ids)} ELSE {}

\* the order of the four DELETE statements
FssSweepOrder == <<"fs", "snap", "mt", "ex">>
FssSweepRank(t) == CHOOSE k \in 1..Len(FssSweepOrder) : FssSweepOrder[k] = t

FssInit ==
  /\ FssStart
  /\ IdleExcept("fss")

\* the run fails: the exception is logged and re-raised
FssFail(why) ==
  /\ fpc' = "failed"
  /\ fwhy' = why

\* the inner loop moves on (continue, or the end of its body); after the last
\* iteration the sweep follows
FssNextUnit ==
  /\ fidx' = fidx + 1
  /\ fpend' = NoPending
  /\ fpc' = IF fidx < Len(FssUnits) THEN "unit" ELSE "sweep"

\* s.time_created of the snapshots: s2 is the younger one
SnapRank(s) == IF s = "s1" THEN 1 ELSE 2

\* the oldest snapshot of the list
LatestIsOldest(snaps) ==
  IF snaps = {}
    THEN "null"
    ELSE CHOOSE s \in snaps : \A t \in snaps : SnapRank(s) <= SnapRank(t)

\* latest = max(snaps, key=lambda s: s.time_created) if snaps else None
Latest(snaps) ==
  IF snaps = {}
    THEN "null"
    ELSE CHOOSE s \in snaps : \A t \in snaps : SnapRank(t) <= SnapRank(s)

\* A run starts: connection, schema, compartments and ADs.  A failure there
\* is re-raised before the loop.
FssStartRun ==
  /\ fpc \in {"idle", "done", "failed"}
  /\ frun < MaxRuns
  /\ \E up \in FssWorlds, setup \in {"ok", "error"} :
       /\ fup' = up
       /\ fpc' = IF setup = "ok" THEN "unit" ELSE "failed"
       /\ fwhy' = IF setup = "ok" THEN "none" ELSE "setup"
  /\ frun' = frun + 1
  /\ fidx' = 1
  /\ fpend' = NoPending
  /\ fseen' = NoRows
  /\ fwritten' = NoRows
  /\ fpre' = ftab
  /\ fswept' = 0
  /\ flast' = NoListing
  /\ fthr' = {}
  /\ UNCHANGED <<ftab, fmarked>>
  /\ UNCHANGED flatest
  /\ UNCHANGED otherThanFss

\* The head of one iteration: the file systems and the mount targets of the
\* compartment in the AD are listed.
FssListUnit ==
  /\ fpc = "unit"
  /\ \E rf \in FssAnswers, rm \in FssAnswers :
       LET u   == FssUnits[fidx]
           fsl == FssListing(fup, u, "fs")
           mtl == FssListing(fup, u, "mt")
       IN  CASE FssOnFsListing(rf) = "raise" ->
                  /\ flast' = [call |-> "file_systems", answer |-> rf]
                  /\ FssFail("listing")
                  /\ UNCHANGED <<fidx, fpend, fthr>>
             [] FssOnFsListing(rf) = "sleep_skip" ->
                  /\ flast' = [call |-> "file_systems", answer |-> rf]
                  /\ fthr' = fthr \cup {<<"file_systems", u>>}
                  /\ FssNextUnit
                  /\ UNCHANGED fwhy
             [] FssOnFsListing(rf) = "proceed" /\ FssOnMtListing(rm) = "raise" ->
                  /\ flast' = [call |-> "mount_targets", answer |-> rm]
                  /\ FssFail("listing")
                  /\ UNCHANGED <<fidx, fpend, fthr>>
             [] FssOnFsListing(rf) = "proceed" /\ FssOnMtListing(rm) = "sleep_skip" ->
                  /\ flast' = [call |-> "mount_targets", answer |-> rm]
                  /\ fthr' = fthr \cup {<<"mount_targets", u>>}
                  /\ FssNextUnit
                  /\ UNCHANGED fwhy
             [] OTHER ->
                  /\ flast' = [call |-> "mount_targets", answer |-> rm]
                  /\ UNCHANGED <<fwhy, fthr>>
                  /\ IF fsl = {} /\ mtl = {}
                       THEN FssNextUnit
                       ELSE /\ fpend' = [fs |-> fsl, mt |-> mtl]
                            /\ fpc' = IF fsl # {} THEN "fs" ELSE "mt"
                            /\ UNCHANGED fidx
  /\ UNCHANGED <<fup, ftab, frun, fseen, fwritten, fpre, fswept, fmarked>>
  /\ UNCHANGED flatest
  /\ UNCHANGED otherThanFss

\* One file system: its snapshots are listed, its row is upserted and its id
\* marked seen, then the same for each of its snapshots.  A statement that
\* fails is logged and re-raised: st tells which one, if any.
FssFileSystem ==
  /\ fpc = "fs"
  /\ \E f \in fpend.fs, r \in FssAnswers, st \in {"ok", "fsfail", "snapfail"} :
       LET act   == FssOnSnapshots(r)
           snaps == IF act = "proceed" THEN FssListing(fup, f, "snap") ELSE {}
           rest  == fpend.fs \ {f}
       IN  /\ flast' = [call |-> "snapshots", answer |-> r]
           /\ fthr' = IF r = "throttled" THEN fthr \cup {<<"snapshots", f>>} ELSE fthr
           /\ CASE act = "raise" ->
                     /\ FssFail("listing")
                     /\ UNCHANGED <<ftab, fseen, fwritten, fpend, fidx, flatest>>
                [] act # "raise" /\ st = "fsfail" ->
                     /\ FssFail("store")
                     /\ UNCHANGED <<ftab, fseen, fwritten, fpend, fidx, flatest>>
                [] act # "raise" /\ st = "snapfail" /\ snaps # {} ->
                     /\ ftab' = [ftab EXCEPT !.fs = FssUpsert(@, {f})]
                     /\ flatest' = [flatest EXCEPT ![f] = Latest(snaps)]
                     /\ fwritten' = [fwritten EXCEPT !.fs = @ \cup {f}]
                     /\ fseen' = [fseen EXCEPT !.fs = FssMark(@, {f})]
                     /\ FssFail("store")
                     /\ UNCHANGED <<fpend, fidx>>
                [] OTHER ->
                     /\ ftab' = [ftab EXCEPT !.fs = FssUpsert(@, {f}),
                                             !.snap = FssUpsert(@, snaps)]
                     /\ flatest' = [flatest EXCEPT ![f] = Latest(snaps)]
                     /\ fwritten' = [fwritten EXCEPT !.fs = @ \cup {f},
                                                     !.snap = @ \cup snaps]
                     /\ fseen' = [fseen EXCEPT !.fs = FssMark(@, {f}),
                                               !.snap = FssMark(@, snaps)]
                     /\ UNCHANGED fwhy
                     /\ IF rest # {} \/ fpend.mt # {}
                          THEN /\ fpend' = [fpend EXCEPT !.fs = rest]
                               /\ fpc' = IF rest # {} THEN "fs" ELSE "mt"
                               /\ UNCHANGED fidx
                          ELSE FssNextUnit
  /\ fmarked' = FssSnapshotMarks(fmarked)
  /\ UNCHANGED <<fup, frun, fpre, fswept>>
  /\ UNCHANGED otherThanFss

\* One mount target: its row is upserted and its id marked seen, the exports
\* of its export set are listed, and each export is upserted and marked.
FssMountTarget ==
  /\ fpc = "mt"
  /\ \E m \in fpend.mt, r \in FssAnswers, st \in {"ok", "mtfail", "exfail"} :
       LET act  == FssOnExports(r)
           exs  == FssListing(fup, m, "ex")
           rest == fpend.mt \ {m}
       IN  IF st = "mtfail"
             THEN /\ FssFail("store")
                  /\ UNCHANGED <<ftab, fseen, fwritten, fpend, fidx, flast, fthr>>
             ELSE /\ flast' = [call |-> "exports", answer |-> r]
                  /\ fthr' = IF r = "throttled" THEN fthr \cup {<<"exports", m>>} ELSE fthr
                  /\ CASE act = "raise" ->
                            /\ ftab' = [ftab EXCEPT !.mt = FssUpsert(@, {m})]
                            /\ fwritten' = [fwritten EXCEPT !.mt = @ \cup {m}]
                            /\ fseen' = [fseen EXCEPT !.mt = FssMark(@, {m})]
                            /\ FssFail("listing")
                            /\ UNCHANGED <<fpend, fidx>>
                       [] act = "proceed" /\ st = "exfail" /\ exs # {} ->
                            /\ ftab' = [ftab EXCEPT !.mt = FssUpsert(@, {m})]
                            /\ fwritten' = [fwritten EXCEPT !.mt = @ \cup {m}]
                            /\ fseen' = [fseen EXCEPT !.mt = FssMark(@, {m})]
                            /\ FssFail("store")
                            /\ UNCHANGED <<fpend, fidx>>
                       [] OTHER ->
                            LET got == IF act = "proceed" THEN exs ELSE {}
                            IN  /\ ftab' = [ftab EXCEPT !.mt = FssUpsert(@, {m}),
                                                        !.ex = FssUpsert(@, got)]
                                /\ fwritten' = [fwritten EXCEPT !.mt = @ \cup {m},
                                                                !.ex = @ \cup got]
                                /\ fseen' = [fseen EXCEPT !.mt = FssMark(@, {m}),
                                                          !.ex = FssMark(@, got)]
                                /\ UNCHANGED fwhy
                                /\ IF rest # {}
                                     THEN /\ fpend' = [fpend EXCEPT !.mt = rest]
                                          /\ UNCHANGED <<fpc, fidx>>
                                     ELSE FssNextUnit
  /\ UNCHANGED <<fup, frun, fpre, fswept, fmarked>>
  /\ UNCHANGED flatest
  /\ UNCHANGED otherThanFss

\* The sweep: four DELETE statements in one try block.  k of them are
\* executed (autocommit); if one fails, the exception is logged and re-raised.
FssSweep ==
  /\ fpc = "sweep"
  /\ \E k \in 0..Len(FssSweepOrder) :
       /\ ftab' = [t \in FssTables |->
                     IF FssSweepRank(t) <= k
                       THEN FssSweepTable(ftab[t], fseen[t])
                       ELSE ftab[t]]
       /\ fswept' = k
       /\ fpc' = IF k = Len(FssSweepOrder) THEN "done" ELSE "failed"
       /\ fwhy' = IF k = Len(FssSweepOrder) THEN fwhy ELSE "store"
  /\ fmarked' = {x \in fmarked : x \in ftab'.snap}
  /\ flatest' = [f \in {"f1", "f2"} |->
                   IF f \in ftab'.fs THEN flatest[f] ELSE "null"]
  /\ UNCHANGED fthr
  /\ UNCHANGED <<fup, frun, fidx, fpend, fseen, fwritten, fpre, flast>>
  /\ UNCHANGED otherThanFss

FssNext == FssStartRun \/ FssListUnit \/ FssFileSystem \/ FssMountTarget \/ FssSweep

SpecFss == FssInit /\ [][FssNext]_vars

\* ------------------------------------------------------------------------
\* Specification SpecVol: instance_volume.  For every configured instance
\* the run reads the instance and its volume attachments, deletes the
\* instance's rows of instance_volume_latest and inserts the attached volumes,
\* deletes the instance's rows of volume_backup_latest and upserts the backups
\* of every attached volume.  The connection is in autocommit mode and every
\* statement is committed on its own.
\* ------------------------------------------------------------------------
\* INSTANCE_OCIDS, in order
VolInstances == <<"i1", "i2">>

\* volume v1 is attached to i1 and has the backup b1; v2 is attached to i2
VolIds == {"v1", "v2", "b1"}
VolParent(x) ==
  CASE x = "v1" -> "i1"
    [] x = "v2" -> "i2"
    [] OTHER    -> "v1"
VolWorlds == {up \in SUBSET VolIds : "b1" \in up => "v1" \in up}

\* the lifecycle states of a volume attachment, and those that count as
\* attached
AttachStates == {"ATTACHED", "ATTACHING", "DETACHING", "DETACHED"}
ATTACH_OK == {"ATTACHED", "ATTACHING"}

\* the attachment states of the volumes of the world up
VolStates(up) ==
  {st \in [Volumes -> AttachStates] :
     \A v \in Volumes : v \notin up => st[v] = "ATTACHED"}

\* every listed attachment counts
AttachedNowAnyState(vols, st) == vols

\* attached_now = [v for v in vols if v["attach_state"] in ATTACH_OK]
AttachedNow(vols, st) == {v \in vols : st[v] \in ATTACH_OK}

\* the volume attachments listed for instance i (boot and block), and the
\* backups of volume v
Attached(up, i) == {x \in up \cap Volumes : VolParent(x) = i}
BackupsOf(up, v) == {x \in up \cap {"b1"} : VolParent(x) = v}

\* get_instance_info with the 404 taken for an answer
VolNotFoundProceeds(r) ==
  CASE r = "error" -> "raise"
    [] OTHER       -> "proceed"

\* get_instance_info: 404 -> the instance is skipped; any other failure is
\* re-raised
VolOnInstanceInfo(r) ==
  CASE r = "ok"       -> "proceed"
    [] r = "notfound" -> "skip"
    [] OTHER          -> "raise"

\* list_backups(): a ServiceError of the listing empties the list; an empty
\* list is looked up again through the resource search, whose ServiceError
\* empties it again; any other exception leaves the function
VolListBackups(up, v, r, rs) ==
  CASE r = "error" -> [raised |-> TRUE, backs |-> {}]
    [] r = "ok" /\ BackupsOf(up, v) # {} ->
         [raised |-> FALSE, backs |-> BackupsOf(up, v)]
    [] r # "error" /\ ~(r = "ok" /\ BackupsOf(up, v) # {}) /\ rs = "error" ->
         [raised |-> TRUE, backs |-> {}]
    [] OTHER ->
         [raised |-> FALSE,
          backs |-> IF rs = "ok" THEN BackupsOf(up, v) ELSE {}]

\* DELETE FROM table WHERE instance_id = i
DeleteInstanceRows(rows, i) == {x \in rows : x[1] # i}

\* upsert_backup_latest for the backups xs: the key is backup_id, and
\* instance_id is among the updated columns
VolUpsert(rows, i, xs) == {y \in rows : y[2] \notin xs} \cup {<<i, x>> : x \in xs}

\* insert_attached_volume: the key is (instance_id, volume_id)
VolInsertVolume(rows, i, x) == rows \cup {<<i, x>>}

VolInit ==
  /\ VolStart
  /\ IdleExcept("vol")

\* the loop moves to the next instance, or main ends
VolNextInstance ==
  /\ vidx' = vidx + 1
  /\ vpend' = NoVolumes
  /\ vpc' = IF vidx < Len(VolInstances) THEN "inst" ELSE "done"

\* A run starts: clients, connection, ensure_tables.
VolStartRun ==
  /\ vpc \in {"idle", "done", "failed"}
  /\ vrun < MaxRuns
  /\ \E up \in VolWorlds, setup \in {"ok", "error"} :
       /\ vup' = up
       /\ vstate' \in VolStates(up)
       /\ vpc' = IF setup = "ok" THEN "inst" ELSE "failed"
  /\ vres' = NoResults
  /\ vrun' = vrun + 1
  /\ vidx' = 1
  /\ vpend' = NoVolumes
  /\ vpre' = vtab
  /\ UNCHANGED vtab
  /\ UNCHANGED otherThanVol

\* get_instance_info, list_boot_attachments and list_block_attachments of
\* one instance; a failure of the attachment listings is re-raised
VolCollect ==
  /\ vpc = "inst"
  /\ \E r \in {"ok", "notfound", "error"}, ra \in {"ok", "error"} :
       LET i   == VolInstances[vidx]
           att == AttachedNow(Attached(vup, i), vstate)
       IN  /\ vres' = [vres EXCEPT ![i] = r]
           /\ CASE VolOnInstanceInfo(r) = "skip" -> VolNextInstance
                [] VolOnInstanceInfo(r) = "raise" ->
                     /\ vpc' = "failed"
                     /\ UNCHANGED <<vidx, vpend>>
                [] VolOnInstanceInfo(r) = "proceed" /\ ra = "error" ->
                     /\ vpc' = "failed"
                     /\ UNCHANGED <<vidx, vpend>>
                [] OTHER ->
                     /\ vpend' = [ins |-> att, bak |-> att]
                     /\ vpc' = "delvol"
                     /\ UNCHANGED vidx
  /\ UNCHANGED <<vup, vtab, vrun, vpre, vstate>>
  /\ UNCHANGED otherThanVol

\* delete_instance_rows(conn, "instance_volume_latest", inst_id)
VolDeleteVolumes ==
  /\ vpc = "delvol"
  /\ \E st \in {"ok", "dberror"} :
       IF st = "dberror"
         THEN /\ vpc' = "failed"
              /\ UNCHANGED vtab
         ELSE /\ vtab' = [vtab EXCEPT !.vol = DeleteInstanceRows(@, VolInstances[vidx])]
              /\ vpc' = IF vpend.ins # {} THEN "insert" ELSE "delbak"
  /\ UNCHANGED <<vup, vrun, vidx, vpend, vpre, vstate, vres>>
  /\ UNCHANGED otherThanVol

\* insert_attached_volume for one attached volume
VolInsert ==
  /\ vpc = "insert"
  /\ \E v \in vpend.ins, st \in {"ok", "dberror"} :
       LET rest == vpend.ins \ {v}
       IN  IF st = "dberror"
             THEN /\ vpc' = "failed"
                  /\ UNCHANGED <<vtab, vpend>>
             ELSE /\ vtab' = [vtab EXCEPT !.vol = VolInsertVolume(@, VolInstances[vidx], v)]
                  /\ vpend' = [vpend EXCEPT !.ins = rest]
                  /\ vpc' = IF rest # {} THEN "insert" ELSE "delbak"
  /\ UNCHANGED <<vup, vrun, vidx, vpre, vstate, vres>>
  /\ UNCHANGED otherThanVol

\* delete_instance_rows(conn, "volume_backup_latest", inst_id)
VolDeleteBackups ==
  /\ vpc = "delbak"
  /\ \E st \in {"ok", "dberror"} :
       IF st = "dberror"
         THEN /\ vpc' = "failed"
              /\ UNCHANGED <<vtab, vidx, vpend, vres>>
         ELSE /\ vtab' = [vtab EXCEPT !.bak = DeleteInstanceRows(@, VolInstances[vidx])]
              /\ IF vpend.bak # {}
                   THEN /\ vpc' = "backups"
                        /\ UNCHANGED <<vidx, vpend, vres>>
                   ELSE /\ VolNextInstance
                        /\ vres' = [vres EXCEPT ![VolInstances[vidx]] = "done"]
  /\ UNCHANGED <<vup, vrun, vpre, vstate>>
  /\ UNCHANGED otherThanVol

\* list_backups and upsert_backup_latest for one attached volume
VolBackups ==
  /\ vpc = "backups"
  /\ \E v \in vpend.bak, r \in {"ok", "service_error", "error"},
        rs \in {"ok", "service_error", "error"}, st \in {"ok", "dberror"} :
       LET res  == VolListBackups(vup, v, r, rs)
           rest == vpend.bak \ {v}
       IN  IF res.raised \/ (st = "dberror" /\ res.backs # {})
             THEN /\ vpc' = "failed"
                  /\ UNCHANGED <<vtab, vidx, vpend, vres>>
             ELSE /\ vtab' = [vtab EXCEPT !.bak =
                                 VolUpsert(@, VolInstances[vidx], res.backs)]
                  /\ IF rest # {}
                       THEN /\ vpend' = [vpend EXCEPT !.bak = rest]
                            /\ UNCHANGED <<vpc, vidx, vres>>
                       ELSE /\ VolNextInstance
                            /\ vres' = [vres EXCEPT ![VolInstances[vidx]] = "done"]
  /\ UNCHANGED <<vup, vrun, vpre, vstate>>
  /\ UNCHANGED otherThanVol

VolNext ==
  \/ VolStartRun
  \/ VolCollect
  \/ VolDeleteVolumes
  \/ VolInsert
  \/ VolDeleteBackups
  \/ VolBackups

SpecVol == VolInit /\ [][VolNext]_vars

\* ------------------------------------------------------------------------
\* Specification SpecPath: the two-level compartment paths.  Each script
\* builds, once per run, the path of every compartment of its map from the
\* compartment's name and the name of its parent.  A path "a > b" is the
\* sequence <<a, b>> of the names joined by the separator.
\* ------------------------------------------------------------------------
Builders == {"adb_list", "dbcs_list", "instance_list", "lb_list", "filesystem_list"}

\* the tenancy (root compartment): its OCID and its name
Root == "root"
RootName == "acme"

NodeName(n) ==
  CASE n = "n1" -> "teamA"
    [] n = "n2" -> "sub1"
    [] OTHER    -> "sub2"

\* the parent of a compartment is absent ("null"), the tenancy, or another
\* compartment; the graph is acyclic
Parents == {"null", Root} \cup NodeIds
RECURSIVE ReachesTop(_, _, _)
ReachesTop(tr, n, k) ==
  IF n \notin NodeIds THEN TRUE
  ELSE IF k = 0 THEN FALSE
  ELSE ReachesTop(tr, tr[n], k - 1)
Trees ==
  {tr \in [NodeIds -> Parents] :
     \A n \in NodeIds : ReachesTop(tr, n, Cardinality(NodeIds))}

\* a compartment object of the map
Node(tr, n) == [id |-> n, name |-> NodeName(n), parent |-> tr[n]]
RootNode == [id |-> Root, name |-> RootName, parent |-> "null"]

\* comp_map: the listed compartments by id; instance_list adds the tenancy
\* itself (load_compartments_with_root)
CompMap(b, tr, ps) ==
  [c \in ps \cup (IF b = "instance_list" THEN {Root} ELSE {}) |->
     IF c = Root THEN RootNode ELSE Node(tr, c)]

\* f"{a}{separator}{b}"
Join(a, b) == <<a, b>>

\* the rule without its first branch
ChildPathNoRootRule(map, cid, rootname) ==
  IF map[cid].parent \in DOMAIN map
    THEN Join(map[map[cid].parent].name, map[cid].name)
    ELSE <<map[cid].name>>

\* the rule with the parent never looked up in the map
ChildPathParentIgnored(map, cid, rootname) ==
  IF map[cid].parent = "null" \/ map[cid].parent = Root
    THEN Join(rootname, map[cid].name)
    ELSE <<map[cid].name>>

\* the rule of adb_list, dbcs_list, instance_list and lb_list for a
\* compartment that is not the tenancy
ChildPath(map, cid, rootname) ==
  IF map[cid].parent = "null" \/ map[cid].parent = Root
    THEN Join(rootname, map[cid].name)
    ELSE IF map[cid].parent \in DOMAIN map
           THEN Join(map[map[cid].parent].name, map[cid].name)
           ELSE <<map[cid].name>>

\* adb_list: every compartment of the map
AdbListPaths(map) == [cid \in DOMAIN map |-> ChildPath(map, cid, RootName)]

\* dbcs_list with the compartments left out whose parent is not in the map
DbcsListPathsDropsOrphans(map) ==
  [cid \in {c \in DOMAIN map \ {Root} :
              map[c].parent \in DOMAIN map \cup {"null", Root}} |->
     ChildPath(map, cid, RootName)]

\* dbcs_list: the tenancy is skipped
DbcsListPaths(map) ==
  [cid \in DOMAIN map \ {Root} |-> ChildPath(map, cid, RootName)]

\* lb_list: the tenancy is skipped
LbListPaths(map) ==
  [cid \in DOMAIN map \ {Root} |-> ChildPath(map, cid, RootName)]

\* instance_list: the tenancy gets its own name, taken from the map
InstanceListPaths(map) ==
  LET tenancy_name == IF Root \in DOMAIN map THEN map[Root].name ELSE "root"
  IN  [cid \in DOMAIN map |->
         IF cid = Root THEN <<tenancy_name>> ELSE ChildPath(map, cid, tenancy_name)]

\* filesystem_list: build_2level_compartment_path (<<>> stands for None)
Build2LevelCompartmentPath(cid, map) ==
  IF cid \notin DOMAIN map THEN <<>>
  ELSE IF cid = Root \/ map[cid].parent = "null" THEN <<RootName>>
  ELSE IF map[cid].parent = Root THEN Join(RootName, map[cid].name)
  ELSE IF map[cid].parent \notin DOMAIN map THEN <<map[cid].name>>
  ELSE Join(map[map[cid].parent].name, map[cid].name)

\* filesystem_list: the path of every listed compartment
FilesystemListPaths(map) ==
  [cid \in DOMAIN map |-> Build2LevelCompartmentPath(cid, map)]

BuildPaths(b, map) ==
  CASE b = "adb_list"      -> AdbListPaths(map)
    [] b = "dbcs_list"     -> DbcsListPaths(map)
    [] b = "instance_list" -> InstanceListPaths(map)
    [] b = "lb_list"       -> LbListPaths(map)
    [] OTHER               -> FilesystemListPaths(map)

\* the input: a builder, a tree of compartments, and the compartments that
\* the listing delivered
PathInit ==
  /\ builder \in Builders
  /\ tree \in Trees
  /\ present \in SUBSET NodeIds
  /\ PathStart
  /\ IdleExcept("path")

\* the paths are built from the map
PathResolve ==
  /\ count < MaxResolves
  /\ prev' = paths
  /\ paths' = BuildPaths(builder, CompMap(builder, tree, present))
  /\ count' = count + 1
  /\ UNCHANGED <<builder, tree, present>>
  /\ UNCHANGED otherThanPath

PathNext == PathResolve

SpecPath == PathInit /\ [][PathNext]_vars

\* ------------------------------------------------------------------------
\* Specification SpecPair: two processes run the same script at the same
\* time, for the same scope or for different scopes, against one database.
\* The scripts take no lock and the connection is in autocommit mode: every
\* statement of a run takes effect on its own, and the statements of the two
\* runs interleave in any order.  The upstream does not change meanwhile.
\* ------------------------------------------------------------------------
\* the rows of the resources S as an earlier run has left them
RowsOf(sc, S) ==
  {NewRow(sc, Home(i).scope, Home(i).target, i, 0) : i \in S}

\* the scope of a row
RowScope(x) == <<x.tenancy, x.region>>

\* the for-loop of a run moves to the next target, or leaves for the sweep
Advanced(q) ==
  [q EXCEPT !.idx = @ + 1, !.cursor = 1,
            !.pc = IF q.idx < Len(Targets) THEN "list" ELSE "sweep"]

\* the items of a page are done
AfterPaged(sc, up, q) ==
  IF FollowsCursor(sc) /\ HasNextPage(Listing(up, q.scope, Targets[q.idx]), q.cursor)
    THEN [q EXCEPT !.pc = "list", !.cursor = @ + 1]
    ELSE Advanced(q)

\* what the table holds before the runs: nothing, a row of each scope, or
\* a row of every resource
PairTables == {{}, {"b", "d"}, Ids}

PairInit ==
  /\ cscript \in Scripts
  /\ cup \in SUBSET Ids
  /\ ctab0 \in {RowsOf(cscript, S) : S \in PairTables}
  /\ crun \in [Runners -> {RunStart(s) : s \in Scopes}]
  /\ PairStart
  /\ IdleExcept("pair")

\* run r: the listing request for its target and the handling of the answer
PairListCall(r) ==
  /\ crun[r].pc = "list"
  /\ \E a \in {"ok", "throttled", "error"},
        info \in IF cscript = "adb_backup" THEN BOOLEAN ELSE {TRUE} :
       LET q     == crun[r]
           act   == OnListing(cscript, a)
           items == Fetched(cscript, Listing(cup, q.scope, Targets[q.idx]), q.cursor)
           got   == [q EXCEPT !.pending = items]
       IN  crun' = [crun EXCEPT ![r] =
             CASE ~info -> Advanced([q EXCEPT !.clean = FALSE])
               [] info /\ act = "proceed" ->
                    IF items = {}
                      THEN AfterPaged(cscript, cup, got)
                      ELSE [got EXCEPT !.pc = "upsert"]
               [] info /\ act = "raise" ->
                    [q EXCEPT !.pc = "failed", !.clean = FALSE]
               [] OTHER -> Advanced([q EXCEPT !.clean = FALSE])]
  /\ UNCHANGED <<cscript, cup, ctab, ctab0>>
  /\ UNCHANGED otherThanPair

\* run r: one listed item is written and marked seen
PairUpsertItem(r) ==
  /\ crun[r].pc = "upsert"
  /\ \E i \in crun[r].pending, st \in {"ok", "dberror"},
        sa \in IF cscript = "dbcs_list" THEN {"ok", "throttled", "error"} ELSE {"ok"} :
       LET q    == crun[r]
           sact == IF cscript = "dbcs_list" THEN DbcsOnSubListing(sa) ELSE "proceed"
           rest == q.pending \ {i}
           done == [q EXCEPT !.pending = rest, !.seen = @ \cup {i}]
       IN  CASE sact = "sleep_skip" ->
                  /\ crun' = [crun EXCEPT ![r] =
                                Advanced([q EXCEPT !.pending = {}, !.clean = FALSE])]
                  /\ UNCHANGED ctab
             [] sact = "raise" ->
                  /\ crun' = [crun EXCEPT ![r] =
                                [q EXCEPT !.pc = "failed", !.clean = FALSE]]
                  /\ UNCHANGED ctab
             [] sact = "proceed" /\ st = "dberror" ->
                  /\ crun' = [crun EXCEPT ![r] = [q EXCEPT !.pc = "failed"]]
                  /\ UNCHANGED ctab
             [] OTHER ->
                  /\ ctab' = Upsert(cscript, ctab,
                                    NewRow(cscript, q.scope, Targets[q.idx], i, r))
                  /\ crun' = [crun EXCEPT ![r] =
                                IF rest = {}
                                  THEN AfterPaged(cscript, cup, done)
                                  ELSE done]
  /\ UNCHANGED <<cscript, cup, ctab0>>
  /\ UNCHANGED otherThanPair

\* run r: the sweep and the end of main()
PairSweepStep(r) ==
  /\ crun[r].pc = "sweep"
  /\ \E st \in {"ok", "dberror"} :
       IF st = "dberror" /\ SweepDeletes(cscript, crun[r].seen)
         THEN /\ crun' = [crun EXCEPT ![r].pc = "failed"]
              /\ UNCHANGED ctab
         ELSE /\ ctab' = Sweep(cscript, ctab, crun[r].scope, crun[r].seen)
              /\ crun' = [crun EXCEPT ![r].pc = "done"]
  /\ UNCHANGED <<cscript, cup, ctab0>>
  /\ UNCHANGED otherThanPair

PairNext ==
  \E r \in Runners : PairListCall(r) \/ PairUpsertItem(r) \/ PairSweepStep(r)

SpecPair == PairInit /\ [][PairNext]_vars

\* ------------------------------------------------------------------------
\* dbcs_backup: the lookback window
\* ------------------------------------------------------------------------

\* Time is counted in days.  The run starts at LookNow.
LOOKBACK_DAYS == 14
LookNow == 20

\* lookback_ts = datetime.now(timezone.utc) - timedelta(days=LOOKBACK_DAYS)
LookbackTs == LookNow - LOOKBACK_DAYS

\* b.time_started: None, or a time before the window, at its start, or in it
NoStart == [has |-> FALSE, t |-> 0]
StartTimes ==
  {NoStart} \cup
    {[has |-> TRUE, t |-> k] : k \in {LookbackTs - 1, LookbackTs, LookNow - 1}}

\* the backups of the configured databases: "a", "b" of the first and "c"
\* of the second
LookIds == {i \in Ids : Home(i).scope = <<"t1", "r1">>}

\* a backup without time_started is skipped too
TooOldOrNoStart(ts) == ~ts.has \/ ts.t < LookbackTs

\* if lookback_ts and ts and ts < lookback_ts: continue
TooOld(ts) == ts.has /\ ts.t < LookbackTs

LookInit ==
  /\ lup \in SUBSET LookIds
  /\ lstarted \in {f \in [Ids -> StartTimes] :
                     \A i \in Ids \ lup : f[i] = NoStart}
  /\ ltab0 \in {RowsOf("dbcs_backup", S) : S \in PairTables}
  /\ LookStart
  /\ IdleExcept("look")

\* resp = db_client.list_backups(**kwargs) for the database of the loop and
\* the page of the cursor; an exception is logged and raised again.  (A
\* failure of get_database only makes db_name the OCID.)
LookListCall ==
  /\ lq.pc = "list"
  /\ \E a \in {"ok", "throttled", "error"} :
       LET act   == DbcsBackupOnListing(a)
           items == Fetched("dbcs_backup",
                            Listing(lup, lq.scope, Targets[lq.idx]), lq.cursor)
           got   == [lq EXCEPT !.pending = items]
       IN  lq' = CASE act = "proceed" ->
                        IF items = {}
                          THEN AfterPaged("dbcs_backup", lup, got)
                          ELSE [got EXCEPT !.pc = "upsert"]
                   [] OTHER -> [lq EXCEPT !.pc = "failed", !.clean = FALSE]
  /\ UNCHANGED <<lup, lstarted, ltab, ltab0>>
  /\ UNCHANGED otherThanLook

\* for b in backups: a backup older than the window is passed over; another
\* one is written with upsert_backup and then marked seen
LookItem ==
  /\ lq.pc = "upsert"
  /\ \E i \in lq.pending, st \in {"ok", "dberror"} :
       LET rest == lq.pending \ {i}
           skip == [lq EXCEPT !.pending = rest]
           done == [lq EXCEPT !.pending = rest, !.seen = Mark(@, i, st)]
       IN  CASE TooOld(lstarted[i]) ->
                  /\ lq' = IF rest = {} THEN AfterPaged("dbcs_backup", lup, skip)
                                        ELSE skip
                  /\ UNCHANGED ltab
             [] ~TooOld(lstarted[i]) /\ st = "dberror" ->
                  /\ lq' = [lq EXCEPT !.pc = "failed"]
                  /\ UNCHANGED ltab
             [] OTHER ->
                  /\ ltab' = Upsert("dbcs_backup", ltab,
                                    NewRow("dbcs_backup", lq.scope,
                                           Targets[lq.idx], i, 0))
                  /\ lq' = IF rest = {} THEN AfterPaged("dbcs_backup", lup, done)
                                        ELSE done
  /\ UNCHANGED <<lup, lstarted, ltab0>>
  /\ UNCHANGED otherThanLook

\* the sweep (skipped when seen_ids is empty) and the end of main()
LookSweepStep ==
  /\ lq.pc = "sweep"
  /\ \E st \in {"ok", "dberror"} :
       IF st = "dberror" /\ SweepDeletes("dbcs_backup", lq.seen)
         THEN /\ lq' = [lq EXCEPT !.pc = "failed"]
              /\ UNCHANGED ltab
         ELSE /\ ltab' = Sweep("dbcs_backup", ltab, lq.scope, lq.seen)
              /\ lq' = [lq EXCEPT !.pc = "done"]
  /\ UNCHANGED <<lup, lstarted, ltab0>>
  /\ UNCHANGED otherThanLook

LookNext == LookListCall \/ LookItem \/ LookSweepStep

SpecLook == LookInit /\ [][LookNext]_vars

\* ------------------------------------------------------------------------
\* adb_backup, dbcs_backup, instance_volume: the configured list of OCIDs
\* ------------------------------------------------------------------------

ListScripts == {"adb_backup", "dbcs_backup", "instance_volume"}

\* the lists that the environment variable of the script can hold
TargetLists(sc) ==
  IF sc = "instance_volume"
    THEN {<<>>, <<"i1">>, <<"i1", "i2">>}
    ELSE {<<>>, <<"c1">>, <<"c1", "c2">>}

ListWorlds(sc) == IF sc = "instance_volume" THEN VolWorlds ELSE SUBSET LookIds

\* the tables that earlier runs can have left
ListTables(sc) ==
  IF sc = "instance_volume"
    THEN {NoVolRows,
          [vol |-> {<<"i1", "v1">>, <<"i2", "v2">>}, bak |-> {<<"i1", "b1">>}]}
    ELSE {RowsOf(sc, S) : S \in PairTables}

\* what the script does with its list before anything else: adb_backup
\* (raise SystemExit(0)) and dbcs_backup (exit(0)) end when the list is
\* empty, instance_volume logs a warning and goes on
OnTargetList(sc, ts) ==
  IF ts = <<>> /\ sc \in Backup THEN "done" ELSE "setup"

\* the table is dropped and created again
EnsureTablesRecreates(sc, rows) ==
  IF sc = "instance_volume" THEN NoVolRows ELSE {}

\* ensure_table, ensure_table_and_columns, ensure_tables: CREATE TABLE IF NOT
\* EXISTS (and ALTER TABLE ADD COLUMN) leave the rows
EnsureTables(sc, rows) == rows

\* the for-loop: the next OCID of the list, or what follows the loop (the
\* sweep of the backup scripts, the end of instance_volume)
LoopPc(sc, ts, k) ==
  CASE k <= Len(ts)  -> "loop"
    [] sc \in Backup -> "sweep"
    [] OTHER         -> "done"

\* the rows after every item of the set xs has been upserted
RECURSIVE UpsertAll(_, _, _, _)
UpsertAll(sc, m, t, xs) ==
  IF xs = {}
    THEN m
    ELSE LET i == CHOOSE j \in xs : TRUE
         IN  UpsertAll(sc, Upsert(sc, m, NewRow(sc, <<"t1", "r1">>, t, i, 0)),
                       t, xs \ {i})

\* what the script gets to see of the backups of target t: adb_backup the
\* first page, dbcs_backup every page
ListedBackups(sc, up, t) ==
  IF FollowsCursor(sc)
    THEN Listing(up, <<"t1", "r1">>, t)
    ELSE Fetched(sc, Listing(up, <<"t1", "r1">>, t), 1)

\* the tables of instance_volume after instance i has been refreshed
VolRefreshed(tabs, up, i) ==
  [vol |-> DeleteInstanceRows(tabs.vol, i)
             \cup {<<i, v>> : v \in Attached(up, i)},
   bak |-> VolUpsert(DeleteInstanceRows(tabs.bak, i), i,
                     UNION {BackupsOf(up, v) : v \in Attached(up, i)})]

ListInit ==
  /\ gscript \in ListScripts
  /\ gtargets \in TargetLists(gscript)
  /\ gup \in ListWorlds(gscript)
  /\ gtab0 \in ListTables(gscript)
  /\ ListStart
  /\ IdleExcept("list")

\* the test of the list at the head of the script
ListHead ==
  /\ gpc = "start"
  /\ gpc' = OnTargetList(gscript, gtargets)
  /\ UNCHANGED <<gscript, gtargets, gup, gtab, gtab0, gidx, gseen>>
  /\ UNCHANGED otherThanList

\* the clients, the connection to MySQL and the tables; an exception ends
\* the run
ListSetup ==
  /\ gpc = "setup"
  /\ \E r \in {"ok", "error"} :
       IF r = "error"
         THEN /\ gpc' = "failed"
              /\ UNCHANGED gtab
         ELSE /\ gtab' = EnsureTables(gscript, gtab)
              /\ gpc' = LoopPc(gscript, gtargets, gidx)
  /\ UNCHANGED <<gscript, gtargets, gup, gtab0, gidx, gseen>>
  /\ UNCHANGED otherThanList

\* one turn of the for-loop over the list
ListEach ==
  /\ gpc = "loop"
  /\ \E a \in {"ok", "throttled", "notfound", "error"}, st \in {"ok", "dberror"} :
       LET t   == gtargets[gidx]
           act == IF gscript = "instance_volume"
                    THEN VolOnInstanceInfo(a)
                    ELSE OnListing(gscript, IF a = "notfound" THEN "error" ELSE a)
           xs  == IF gscript = "instance_volume"
                    THEN {}
                    ELSE ListedBackups(gscript, gup, t)
       IN  CASE act = "raise" \/ (act = "proceed" /\ st = "dberror") ->
                  /\ gpc' = "failed"
                  /\ UNCHANGED <<gtab, gidx, gseen>>
             [] act = "proceed" /\ st = "ok" ->
                  /\ gtab' = IF gscript = "instance_volume"
                               THEN VolRefreshed(gtab, gup, t)
                               ELSE UpsertAll(gscript, gtab, t, xs)
                  /\ gseen' = gseen \cup xs
                  /\ gidx' = gidx + 1
                  /\ gpc' = LoopPc(gscript, gtargets, gidx + 1)
             [] OTHER ->
                  /\ gidx' = gidx + 1
                  /\ gpc' = LoopPc(gscript, gtargets, gidx + 1)
                  /\ UNCHANGED <<gtab, gseen>>
  /\ UNCHANGED <<gscript, gtargets, gup, gtab0>>
  /\ UNCHANGED otherThanList

\* the sweep of a backup script (skipped when the seen-set is empty)
ListSweep ==
  /\ gpc = "sweep"
  /\ \E st \in {"ok", "dberror"} :
       IF st = "dberror" /\ SweepDeletes(gscript, gseen)
         THEN /\ gpc' = "failed"
              /\ UNCHANGED gtab
         ELSE /\ gtab' = Sweep(gscript, gtab, <<"t1", "r1">>, gseen)
              /\ gpc' = "done"
  /\ UNCHANGED <<gscript, gtargets, gup, gtab0, gidx, gseen>>
  /\ UNCHANGED otherThanList

ListNext == ListHead \/ ListSetup \/ ListEach \/ ListSweep

SpecList == ListInit /\ [][ListNext]_vars

\* ------------------------------------------------------------------------
\* insert_usage: the daily cost of every service
\* ------------------------------------------------------------------------

\* A service name is a sequence of characters.
Unknown == <<"U", "n", "k", "n", "o", "w", "n">>

\* str.strip(): white space goes from both ends
RECURSIVE LStrip(_)
LStrip(s) == IF s # <<>> /\ Head(s) = " " THEN LStrip(Tail(s)) ELSE s

RECURSIVE RStrip(_)
RStrip(s) ==
  IF s # <<>> /\ s[Len(s)] = " " THEN RStrip(SubSeq(s, 1, Len(s) - 1)) ELSE s

Strip(s) == RStrip(LStrip(s))

\* item.service of the usage API: None, or a string
NoService == [has |-> FALSE, s |-> <<>>]
RawServices ==
  {NoService} \cup
    {[has |-> TRUE, s |-> t] :
       t \in {<<>>, <<"C">>, <<" ", "C", " ">>, <<"c">>, Unknown}}

\* (item.service or "Unknown").strip(): None and the empty string are falsy
ServiceName(raw) ==
  Strip(IF raw.has /\ raw.s # <<>> THEN raw.s ELSE Unknown)

\* Amounts are counted in units of 10^-7; the column computed_amount is
\* DECIMAL(18,6) and keeps units of 10^-6.
DecimalStep == 10

\* item.computed_amount of the usage API: None, or a number
NoAmount == [has |-> FALSE, n |-> 0]
RawAmounts == {NoAmount} \cup {[has |-> TRUE, n |-> k] : k \in {4, 7}}

\* float(item.computed_amount or 0)
Amount(raw) == IF raw.has THEN raw.n ELSE 0

\* a value stored into DECIMAL(18,6): rounded to the nearest unit of the
\* column, halves away from zero
ToDecimal(n) == (n + DecimalStep \div 2) \div DecimalStep

\* the answers of request_summarized_usages
UsageItems == [service : RawServices, computed_amount : RawAmounts]
UsageAnswers == UNION {[1..n -> UsageItems] : n \in 0..MaxItems}
UsageDates == {"d1", "d2"}

\* raw_items: one entry per item of the answer
RawItems(d, items) ==
  [k \in 1..Len(items) |->
     [usage_date |-> d, service |-> ServiceName(items[k].service),
      computed_amount |-> Amount(items[k].computed_amount)]]

\* the position of key (d, s) in the list agg, 0 when it has none
KeyIndex(agg, d, s) ==
  IF \E k \in 1..Len(agg) : agg[k].usage_date = d /\ agg[k].service = s
    THEN CHOOSE k \in 1..Len(agg) : agg[k].usage_date = d /\ agg[k].service = s
    ELSE 0

\* the last amount of a key stands
RECURSIVE AggregateLastWins(_, _)
AggregateLastWins(raw, agg) ==
  IF raw = <<>>
    THEN agg
    ELSE LET r == Head(raw)
             k == KeyIndex(agg, r.usage_date, r.service)
         IN  AggregateLastWins(Tail(raw),
               IF k = 0 THEN Append(agg, r)
               ELSE [agg EXCEPT ![k].computed_amount = r.computed_amount])

\* aggregated[key] = aggregated.get(key, 0) + r["computed_amount"], and
\* parsed: one entry per key, in the order the keys came
RECURSIVE Aggregate(_, _)
Aggregate(raw, agg) ==
  IF raw = <<>>
    THEN agg
    ELSE LET r == Head(raw)
             k == KeyIndex(agg, r.usage_date, r.service)
         IN  Aggregate(Tail(raw),
               IF k = 0 THEN Append(agg, r)
               ELSE [agg EXCEPT ![k].computed_amount = @ + r.computed_amount])

\* the service name as the unique key uniq_usage_service compares it
Fold(s) == [k \in 1..Len(s) |-> IF s[k] = "c" THEN "C" ELSE s[k]]
KeyOf(coll, s) == IF coll = "ci" THEN Fold(s) ELSE s

\* the row that the INSERT of entry r makes
UsageRow(r) ==
  [usage_date |-> r.usage_date, service |-> r.service,
   computed_amount |-> ToDecimal(r.computed_amount)]

\* the tables that earlier runs can have left
UsageTables ==
  {{},
   {[usage_date |-> "d1", service |-> <<"C">>, computed_amount |-> 1]},
   {[usage_date |-> "d2", service |-> <<"C">>, computed_amount |-> 1]},
   {[usage_date |-> "d1", service |-> Unknown, computed_amount |-> 2],
    [usage_date |-> "d1", service |-> <<"S">>, computed_amount |-> 1],
    [usage_date |-> "d2", service |-> <<"c">>, computed_amount |-> 0]}}

UsageInit ==
  /\ ucoll \in {"cs", "ci"}
  /\ utab \in UsageTables
  /\ UsageStart
  /\ IdleExcept("usage")

\* target_date, the usage API client and request_summarized_usages, the
\* aggregation, the connection to MySQL and CREATE TABLE IF NOT EXISTS:
\* each of the calls can raise, and that ends the run
UsageFetch ==
  /\ upc = "start"
  /\ \E d \in UsageDates, ans \in UsageAnswers, r \in {"ok", "error"} :
       /\ udate' = d
       /\ IF r = "error"
            THEN /\ upc' = "failed"
                 /\ UNCHANGED <<uitems, uparsed>>
            ELSE /\ uitems' = ans
                 /\ uparsed' = Aggregate(RawItems(d, ans), <<>>)
                 /\ upc' = "delete"
  /\ UNCHANGED <<ucoll, utab, upre, uwork, uidx>>
  /\ UNCHANGED otherThanUsage

\* every statement is committed as it is made
EndWithoutCommitKeepsWork(committed, work) == work

\* the run ends by an exception before conn.commit(): the connection has
\* autocommit off and the server rolls the open transaction back
EndWithoutCommit(committed, work) == committed

\* DELETE FROM oci_api_cost_daily_service_report WHERE usage_date = %s, in
\* the transaction of the run; an error ends the run and the transaction is
\* rolled back
UsageDelete ==
  /\ upc = "delete"
  /\ \E r \in {"ok", "error"} :
       IF r = "error"
         THEN /\ upc' = "failed"
              /\ utab' = EndWithoutCommit(utab, uwork)
              /\ uwork' = utab'
         ELSE /\ uwork' = {x \in uwork : x.usage_date # udate}
              /\ upc' = IF uparsed # <<>> THEN "insert" ELSE "commit"
              /\ UNCHANGED utab
  /\ UNCHANGED <<ucoll, upre, udate, uitems, uparsed, uidx>>
  /\ UNCHANGED otherThanUsage

\* one INSERT of the loop over parsed; it fails on an error of the database
\* and on a row that has the key (usage_date, service) of a row there is
UsageInsert ==
  /\ upc = "insert"
  /\ \E r \in {"ok", "error"} :
       LET row == UsageRow(uparsed[uidx])
           dup == \E x \in uwork :
                    /\ x.usage_date = row.usage_date
                    /\ KeyOf(ucoll, x.service) = KeyOf(ucoll, row.service)
       IN  IF r = "error" \/ dup
             THEN /\ upc' = "failed"
                  /\ utab' = EndWithoutCommit(utab, uwork)
                  /\ uwork' = utab'
                  /\ UNCHANGED uidx
             ELSE /\ uwork' = uwork \cup {row}
                  /\ uidx' = uidx + 1
                  /\ upc' = IF uidx < Len(uparsed) THEN "insert" ELSE "commit"
                  /\ UNCHANGED utab
  /\ UNCHANGED <<ucoll, upre, udate, uitems, uparsed>>
  /\ UNCHANGED otherThanUsage

\* conn.commit(): the rows of the transaction become the rows of the table
UsageCommit ==
  /\ upc = "commit"
  /\ \E r \in {"ok", "error"} :
       IF r = "error"
         THEN /\ upc' = "failed"
              /\ utab' = EndWithoutCommit(utab, uwork)
              /\ uwork' = utab'
         ELSE /\ utab' = uwork
              /\ upc' = "done"
              /\ UNCHANGED uwork
  /\ UNCHANGED <<ucoll, upre, udate, uitems, uparsed, uidx>>
  /\ UNCHANGED otherThanUsage

UsageNext == UsageFetch \/ UsageDelete \/ UsageInsert \/ UsageCommit

SpecUsage == UsageInit /\ [][UsageNext]_vars

\* ------------------------------------------------------------------------
\* A run from its start to its end (specification SpecLive)
\* ------------------------------------------------------------------------

\* One run of one of the six list and backup scripts, or one run of
\* filesystem_list.  The process, once started, is scheduled until main()
\* returns or an exception leaves it: every call returns, time.sleep(3)
\* returns.
LiveStartRun == run = 0 /\ frun = 0 /\ StartRun
LiveFssStartRun == run = 0 /\ frun = 0 /\ FssStartRun

RunSteps == ListCall \/ UpsertItem \/ SweepStep
FssRunSteps == FssListUnit \/ FssFileSystem \/ FssMountTarget \/ FssSweep

LiveNext == LiveStartRun \/ LiveFssStartRun \/ RunSteps \/ FssRunSteps

SpecLive ==
  /\ Init
  /\ [][LiveNext]_vars
  /\ WF_vars(RunSteps)
  /\ WF_vars(FssRunSteps)

\* ------------------------------------------------------------------------
\* Properties
\* ------------------------------------------------------------------------
\* the listing call of target t was made in this run and its first answer
\* was r
FirstAnswer(t, r) ==
  /\ calls[t].invoked >= 1
  /\ Response(calls[t], 1) = r

\* C1: mark-and-sweep correctness.  After a run of an inventory synchronizer
\* (adb_list, dbcs_list, instance_list, lb_list) that completed successfully,
\* the ids that have a row in the mirror table for the run's scope are
\* exactly the ids that the upstream listings returned during the run.
C1_MarkAndSweepCorrect ==
  (pc = "done" /\ script \in Inventory) => ScopeIds(mirror, scope) = returned

\* some listing call of the run did not deliver: its first answer was an
\* error or HTTP 429 (dbcs_list: also a listing made inside upsert_dbcs)
CollectionFailed ==
  \/ \E t \in TargetSet : calls[t].invoked >= 1 /\ Response(calls[t], 1) # "ok"
  \/ sub.invoked >= 1 /\ Response(sub, 1) # "ok"

\* every target was listed and every listing was answered at once
AllListingsOk ==
  /\ \A t \in TargetSet : FirstAnswer(t, "ok")
  /\ sub.invoked >= 1 => Response(sub, 1) = "ok"

\* C2: partial-failure safety.  If the collection of a run fails (a listing
\* raises or is throttled), no sweep takes rows away: every row the scope
\* had before the run is still there, and the rows upserted from the partial
\* set are there too.
C2_PartialFailureSafe ==
  CollectionFailed =>
    /\ ScopeIds(pre, scope) \subseteq ScopeIds(mirror, scope)
    /\ seen \subseteq ScopeIds(mirror, scope)

C4_SweepScopeExact ==
  [][(pc = "sweep" /\ pc' = "done")
       => \A r \in mirror :
            ~(r.tenancy = scope[1] /\ r.region = scope[2]) => r \in mirror']_vars

C6_ErrorSkipsSweepAndFails ==
  \A t \in TargetSet :
    FirstAnswer(t, "error") =>
      /\ calls[t].invoked = 1
      /\ ~swept
      /\ pc # "done"

\* C7: retry exhaustion.  When every attempt of a listing call up to the
\* attempt bound is throttled, the run is aborted without its sweep.
C7_ExhaustionAbortsWithoutSweep ==
  \A t \in TargetSet :
    (calls[t].invoked >= 1 /\ calls[t].thr = MaxAttempts) =>
      /\ ~swept
      /\ pc # "done"

\* C8: retry success.  A listing call throttled on every attempt but the
\* last one of the attempt bound, and answered on that one, delivers its
\* items: they are collected, and upserted by the time the run completes.
C8_ThrottledThenAnsweredDelivers ==
  \A t \in TargetSet :
    (calls[t].invoked >= 1 /\ calls[t].thr = MaxAttempts - 1 /\ calls[t].final = "ok") =>
      /\ Listing(upstream, scope, t) \subseteq returned
      /\ pc = "done" => Listing(upstream, scope, t) \subseteq AllIds(mirror)

\* the scripts whose handler of a failed listing re-raises the exception
Reraising == {"adb_list", "dbcs_list", "dbcs_backup"}

C11_UpsertFullReplace == last \subseteq table

\* the step of the run that upserts item i
UpsertsItem(i) ==
  /\ pc = "upsert"
  /\ i \in pending
  /\ pending' = pending \ {i}
  /\ i \in seen'

C13_UpsertIdempotent ==
  [][again' =>
       /\ Business(table') = Business(table)
       /\ \A r \in last' : Cardinality({x \in table' : x.id = r.id}) = 1]_vars

\* C13 witness: a record was written a second time at a later moment, next
\* to a row of another id
C13_Witness ==
  /\ again
  /\ was # table
  /\ Business(was) = Business(table)
  /\ Cardinality(table) = 2

\* C14: run idempotence.  A run that follows a completed run of the same
\* scope, with the upstream unchanged in between, leaves the mirror table
\* with the content the first run left (the refresh timestamp apart).
C14_RunIdempotent ==
  (pc = "done" /\ repeat) => Business(mirror) = Business(pre)

\* C15: the collector drains every page.  When a run has completed and every
\* listing request of it was answered, every item of every page of every
\* target has been collected, upserted and marked seen.
C15_EveryPageCollected ==
  (pc = "done" /\ AllListingsOk) =>
    \A t \in TargetSet :
      /\ Listing(upstream, scope, t) \subseteq returned
      /\ Listing(upstream, scope, t) \subseteq seen
      /\ Listing(upstream, scope, t) \subseteq AllIds(mirror)

\* C16: not-found is recovered as empty.  When the listing of a sub-resource
\* (the snapshots of a file system, the exports of a mount target) is
\* answered with not-found, the run is not aborted by it: the listing counts
\* as empty and the run goes on.
C16_NotFoundIsEmpty ==
  (flast.call \in {"snapshots", "exports"} /\ flast.answer = "notfound")
    => ~(fpc = "failed" /\ fwhy = "listing")

\* C17: ordering.  Within a run every upsert precedes the sweep: once a
\* DELETE of the sweep has been executed no table gains a row in that run,
\* and the seen-sets handed to the sweep contain the ids of all the upserts
\* of the run.
C17_UpsertsPrecedeSweep ==
  [][/\ (fswept > 0 /\ frun' = frun) => \A t \in FssTables : ftab'[t] \subseteq ftab[t]
     /\ fpc = "sweep" => \A t \in FssTables : fwritten[t] \subseteq fseen[t]]_vars

\* C17 witness: a run has upserted into all four tables and then swept them,
\* removing a row
C17_Witness ==
  /\ fpc = "done"
  /\ fswept = Len(FssSweepOrder)
  /\ \A t \in FssTables : fwritten[t] # {}
  /\ \E t \in FssTables : ftab[t] # fpre[t] \cup fwritten[t]

\* volume x, or the volume of backup x, is attached upstream
StillAttached(x) ==
  /\ x \in vup
  /\ vstate[IF x \in Volumes THEN x ELSE VolParent(x)] \in ATTACH_OK

\* C18: a failed run leaves the last-known-good state.  When a run of
\* instance_volume has failed, every row that a table had before the run and
\* whose volume or backup still exists upstream (the volume attached) is
\* still in the table: a failure after the per-instance delete leaves the
\* instance with the rows it had.
C18_FailedRunKeepsRows ==
  vpc = "failed" =>
    \A t \in {"vol", "bak"} :
      \A x \in vpre[t] : StillAttached(x[2]) => x \in vtab[t]

\* C19: a store failure is fatal and never swallowed.  When an upsert or the
\* DELETE of the sweep has failed, the run has stopped as a failure without
\* an executed sweep, and nothing more is written in that run: no further
\* upsert, no sweep.
C19_StoreFailureFatal ==
  [][/\ fault' = "store" => (pc' = "failed" /\ ~swept')
     /\ (fault = "store" /\ run' = run) => (mirror' = mirror /\ seen' = seen)]_vars

\* C19 witness: an upsert failed after an earlier item had been written and
\* while items of the target were still to write
C19_Witness ==
  /\ fault = "store"
  /\ pc = "failed"
  /\ seen # {}
  /\ Cardinality(pending) >= 1
  /\ ~swept

PathScenario ==
  /\ count >= 1
  /\ tree["n1"] = "null"
  /\ tree["n2"] = "n1"
  /\ {"n1", "n2"} \subseteq present

\* the path that the rule gives a supplied node whose parent is another node
BelowNodePath(n) ==
  IF tree[n] \in present
    THEN <<NodeName(tree[n]), NodeName(n)>>
    ELSE <<NodeName(n)>>

C22_NoRootEntryAnyBuilder ==
  count >= 1 => (Root \notin DOMAIN paths /\ DOMAIN paths = present)

\* C22 as amended: in adb_list, dbcs_list, lb_list and filesystem_list the
\* path map has no entry for the root and its keys are exactly the supplied
\* nodes; in instance_list the root is among the supplied nodes and has the
\* root name alone as its path, and the keys are the supplied nodes with the
\* root.
C22_PathMapKeys ==
  count >= 1 =>
    IF builder = "instance_list"
      THEN /\ DOMAIN paths = present \cup {Root}
           /\ paths[Root] = <<RootName>>
      ELSE /\ Root \notin DOMAIN paths
           /\ DOMAIN paths = present

\* C22 witness: instance_list has built the paths of a map with compartments
\* and the root has its entry
C22_Witness ==
  /\ builder = "instance_list"
  /\ count >= 1
  /\ present # {}
  /\ Root \in DOMAIN paths

\* C23: a row of the filesystem_list tables is absent or present.  It
\* becomes present only by an upsert of its id, an upsert of a present row
\* keeps it present, and no step of the loops removes a row; it becomes
\* absent only by the sweep, for an id that is not in the seen-set; the
\* DELETE of the sweep removes every such row from its table, and no row of
\* oci_fss_snapshots ever has its deleted_at set.
C23_RowLifecycle ==
  [][\A t \in FssTables : \A x \in FssIds :
       /\ (x \notin ftab[t] /\ x \in ftab'[t])
            => (fpc \in {"fs", "mt"} /\ x \in fwritten'[t] \ fwritten[t])
       /\ (frun' = frun /\ x \in fwritten'[t] \ fwritten[t]) => x \in ftab'[t]
       /\ (x \in ftab[t] /\ x \notin ftab'[t])
            => (fpc = "sweep" /\ x \notin fseen[t])
       /\ (fpc = "sweep" /\ FssSweepRank(t) <= fswept' /\ x \notin fseen[t])
            => x \notin ftab'[t]
       /\ fmarked' = {}]_vars

\* C23 witness: a completed run has refreshed the row of a file system and
\* swept the row of a snapshot that the run before had written
C23_Witness ==
  /\ fpc = "done"
  /\ frun = 2
  /\ \E x \in fpre.snap : x \notin ftab.snap
  /\ \E x \in fpre.fs : x \in fwritten.fs /\ x \in ftab.fs
  /\ fmarked = {}

\* the ids that the rows of scope s have when run r has executed alone on
\* the table as it was before the runs, with the listings answered as they
\* were
AloneIds(r) ==
  ScopeIds(Sweep(cscript,
                 RowsOf(cscript, AllIds(ctab0) \cup crun[r].seen),
                 crun[r].scope, crun[r].seen),
           crun[r].scope)

\* C24: cross-scope isolation.  When two runs of a script for different
\* scopes interleave on one table, no statement of a run changes a row of a
\* scope other than the run's own, and when both runs have completed the
\* rows of each scope are those that its run leaves when it executes alone.
C24_CrossScopeIsolation ==
  [][crun[1].scope # crun[2].scope =>
       /\ \A r \in Runners :
            crun'[r] # crun[r] =>
              {x \in ctab' : RowScope(x) # crun[r].scope}
                = {x \in ctab : RowScope(x) # crun[r].scope}
       /\ (\A r \in Runners : crun'[r].pc = "done") =>
            \A r \in Runners : ScopeIds(ctab', crun[r].scope) = AloneIds(r)']_vars

\* the rows of run s's scope that are upstream
UpstreamOf(s) == {i \in cup : Home(i).scope = s}

\* C27: overlapping runs of one scope.  When two runs for the same scope
\* interleave, with the upstream unchanged and every listing call of both
\* answered, then once both have completed the ids of the scope's rows are
\* the ids of the scope's upstream resources, and no sweep removes a row
\* that the other run has upserted.
C27_OverlapSameScope ==
  [][crun[1].scope = crun[2].scope =>
       /\ (\A r \in Runners : crun'[r].pc = "done" /\ crun'[r].clean) =>
            ScopeIds(ctab', crun[1].scope) = UpstreamOf(crun[1].scope)
       /\ \A r \in Runners :
            (crun[r].pc = "sweep" /\ crun'[r].pc = "done" /\ crun[r].clean) =>
              \A o \in Runners \ {r} :
                \A i \in crun[o].seen :
                  i \in AllIds(ctab) => i \in AllIds(ctab')]_vars

\* resource x was not collected in this run because a listing was answered
\* HTTP 429: the listing of the snapshots of its file system, of the exports
\* of its mount target, or of the mount targets of its compartment and AD
\* (which also skips the file systems listed there)
FssThrottledAway(x) ==
  CASE FssKind(x) = "snap" -> <<"snapshots", FssParent(x)>> \in fthr
    [] FssKind(x) = "ex"   -> <<"exports", FssParent(x)>> \in fthr
    [] OTHER               -> <<"mount_targets", FssParent(x)>> \in fthr

\* C25: in filesystem_list, after a run that completed, every resource that
\* still exists upstream, had a row before the run, and was not collected
\* because its listing was answered HTTP 429, still has its row.
C25_ThrottleKeepsRows ==
  fpc = "done" =>
    \A x \in fup :
      (x \in fpre[FssKind(x)] /\ FssThrottledAway(x)) => x \in ftab[FssKind(x)]

\* C26: the seen-set invariant.  At every point of a run every id of the
\* seen-set has exactly one row in the mirror table (an id joins the set
\* only after its upsert succeeded), also after the sweep of the run: the
\* sweep deletes no row that the run has upserted.
C26_SeenSetHasRows ==
  \A i \in seen : Cardinality({x \in mirror : x.id = i}) = 1

\* C26 witness: a run has completed whose sweep deleted a row and left the
\* rows of the ids it had seen
C26_Witness ==
  /\ pc = "done"
  /\ swept
  /\ seen # {}
  /\ \E x \in pre : x.id \notin AllIds(mirror)

\* the rows of instance i in table t of the tables tabs
RowsOfInstance(tabs, t, i) == {x \in tabs[t] : x[1] = i}

\* C28: in instance_volume, once the iteration of an instance has completed,
\* the rows of instance_volume_latest for the instance are exactly its boot
\* and block volume attachments in state ATTACHED or ATTACHING, until the
\* next run: no row of a volume that is detaching, detached or no longer
\* listed is left.
C28_RowsAreAttachedVolumes ==
  \A k \in 1..Len(VolInstances) :
    vres[VolInstances[k]] = "done" =>
      RowsOfInstance(vtab, "vol", VolInstances[k])
        = {<<VolInstances[k], v>> :
             v \in {w \in Attached(vup, VolInstances[k]) : vstate[w] \in ATTACH_OK}}

\* C28 witness: the iteration of i1 has completed in a run that found its
\* volume detaching and removed the row, and the iteration of i2 has
\* completed with the row of its attaching volume
C28_Witness ==
  /\ vres["i1"] = "done"
  /\ vres["i2"] = "done"
  /\ <<"i1", "v1">> \in vpre.vol
  /\ "v1" \in vup
  /\ vstate["v1"] = "DETACHING"
  /\ vstate["v2"] = "ATTACHING"
  /\ vtab.vol = {<<"i2", "v2">>}

\* C29: in instance_volume, when get_instance answers HTTP 404 the instance
\* is skipped: the step writes nothing and the loop goes on with the next
\* instance (or main ends), and through the rest of the run the rows of the
\* instance in both tables stay as they were before the run; when
\* get_instance fails otherwise, the run is aborted with nothing written.
C29_NotFoundSkipsInstance ==
  [][\A k \in 1..Len(VolInstances) :
       LET i == VolInstances[k]
       IN  /\ (vres[i] = "none" /\ vres'[i] = "notfound") =>
                /\ vtab' = vtab
                /\ vidx' = k + 1
                /\ vpc' = IF k < Len(VolInstances) THEN "inst" ELSE "done"
           /\ vres'[i] = "notfound" =>
                \A t \in {"vol", "bak"} :
                  RowsOfInstance(vtab', t, i) = RowsOfInstance(vpre', t, i)
           /\ (vres[i] = "none" /\ vres'[i] = "error") =>
                (vtab' = vtab /\ vpc' = "failed")]_vars

\* C29 witness: a run has completed in which i1 was skipped on HTTP 404 and
\* kept its rows of both tables, and i2 was processed
C29_Witness ==
  /\ vpc = "done"
  /\ vres["i1"] = "notfound"
  /\ vres["i2"] = "done"
  /\ <<"i1", "v1">> \in vtab.vol
  /\ <<"i1", "b1">> \in vtab.bak
  /\ <<"i2", "v2">> \in vtab.vol

\* the service names of the answer, and the sum of the amounts of the items
\* of the answer that have service name s
ServicesOf(items) == {ServiceName(items[k].service) : k \in 1..Len(items)}

RECURSIVE SumFor(_, _)
SumFor(items, s) ==
  IF items = <<>>
    THEN 0
    ELSE (IF ServiceName(Head(items).service) = s
            THEN Amount(Head(items).computed_amount) ELSE 0)
         + SumFor(Tail(items), s)

RowsOfDate(rows, d) == {x \in rows : x.usage_date = d}

\* C30 as stated: after a successful run of insert_usage for date D the rows
\* of D are one row per distinct service name of the answer (trimmed,
\* 'Unknown' when missing), whose computed_amount is the very sum of the
\* amounts of the items of that service, and the rows of the other dates are
\* those from before the run.
C30_RowsAreExactSums ==
  upc = "done" =>
    /\ \A s \in ServicesOf(uitems) :
         \E x \in RowsOfDate(utab, udate) :
           /\ x.service = s
           /\ x.computed_amount * DecimalStep = SumFor(uitems, s)
    /\ \A x \in RowsOfDate(utab, udate) : x.service \in ServicesOf(uitems)
    /\ Cardinality(RowsOfDate(utab, udate)) = Cardinality(ServicesOf(uitems))
    /\ \A d \in UsageDates \ {udate} : RowsOfDate(utab, d) = RowsOfDate(upre, d)

\* C30: after a successful run of insert_usage for date D the rows of D are
\* exactly one row per distinct service name of the answer (trimmed,
\* 'Unknown' when the name is None or empty), whose computed_amount is the
\* sum of the amounts of the items of that service rounded to the six
\* decimal places of the column, and the rows of the other dates are those
\* from before the run.
C30_RowsAreRoundedSums ==
  upc = "done" =>
    /\ RowsOfDate(utab, udate)
         = {[usage_date |-> udate, service |-> s,
             computed_amount |-> ToDecimal(SumFor(uitems, s))] :
              s \in ServicesOf(uitems)}
    /\ \A d \in UsageDates \ {udate} : RowsOfDate(utab, d) = RowsOfDate(upre, d)

\* C30 witness: a run for d1 has succeeded on an answer of two items of one
\* service, named with and without white space, whose amounts round up only
\* when summed; the old rows of d1 are gone and the row of d2 is there
C30_Witness ==
  /\ upc = "done"
  /\ udate = "d1"
  /\ Len(uitems) = 2
  /\ uitems[1].service.s = <<" ", "C", " ">>
  /\ uitems[2].service.s = <<"C">>
  /\ Amount(uitems[1].computed_amount) = 4
  /\ Amount(uitems[2].computed_amount) = 4
  /\ RowsOfDate(upre, "d1") # {}
  /\ RowsOfDate(upre, "d2") # {}
  /\ utab = RowsOfDate(upre, "d2")
             \cup {[usage_date |-> "d1", service |-> <<"C">>,
                    computed_amount |-> 1]}

\* C31: in insert_usage the replacement of the rows of a date is all or
\* nothing.  Until the run has committed the table holds the rows it had
\* before the run, also when an insert has failed after the DELETE; and when
\* the run has committed, the rows of the date are all the rows of parsed:
\* the table never holds the rows of the date deleted with only part of
\* the new rows inserted.
C31_AllOrNothing ==
  /\ upc # "done" => utab = upre
  /\ upc = "done" =>
       RowsOfDate(utab, udate)
         = {UsageRow(uparsed[k]) : k \in 1..Len(uparsed)}

\* C31 witness: in a run for d1, whose rows the DELETE has removed, the
\* first insert succeeded and the second failed; the table holds the rows
\* from before the run
C31_Witness ==
  /\ upc = "failed"
  /\ udate = "d1"
  /\ Len(uparsed) = 2
  /\ uidx = 2
  /\ RowsOfDate(upre, "d1") # {}
  /\ utab = upre

\* the rows of table m that belong to scope s
RowsInScope(m, s) == {x \in m : x.tenancy = s[1] /\ x.region = s[2]}

\* C32: after a successful run of an inventory synchronizer (adb_list,
\* dbcs_list, instance_list, lb_list) every row of the scope of the run
\* carries the run timestamp of that run as last_refreshed_utc: no row of
\* the scope keeps the timestamp of an earlier run.
C32_RowsCarryRunTimestamp ==
  (script \in Inventory /\ pc = "done") =>
    \A x \in RowsInScope(mirror, scope) : x.refreshed = run

\* C32 witness: the second run of an inventory synchronizer has succeeded
\* in a scope where the first run had left rows; one of them is still there
\* and carries the timestamp of the second run
C32_Witness ==
  /\ script \in Inventory
  /\ pc = "done"
  /\ run = 2
  /\ \E x \in RowsInScope(pre, scope) :
       /\ x.refreshed = 1
       /\ [x EXCEPT !.refreshed = 2] \in mirror
  /\ \E x \in RowsInScope(pre, scope) : \A y \in mirror : y.id # x.id

\* the backups that the listings of the configured databases hold and that
\* are not older than the window
InWindow(up, started) ==
  {i \in up \cap LookIds : ~started[i].has \/ started[i].t >= LookbackTs}

\* C33: in dbcs_backup a backup whose time_started is older than the
\* lookback window of 14 days is never marked seen, a backup without
\* time_started is; and after a successful run that has seen at least one
\* backup the table holds exactly the backups of the configured databases
\* whose time_started lies in the window or is absent.
C33_LookbackWindow ==
  /\ lq.seen \subseteq InWindow(lup, lstarted)
  /\ (lq.pc \in {"sweep", "done"}) => lq.seen = InWindow(lup, lstarted)
  /\ (lq.pc = "done" /\ lq.seen # {}) =>
       {x.id : x \in ltab} = InWindow(lup, lstarted)

\* C33 witness: a run has succeeded over an old backup "a", whose row it
\* has removed, a backup "b" without time_started and a backup "c" from
\* the start of the window; the table, that held a row of every backup
\* before, holds "b" and "c"
C33_Witness ==
  /\ lq.pc = "done"
  /\ lup = {"a", "b", "c"}
  /\ lstarted["a"] = [has |-> TRUE, t |-> LookbackTs - 1]
  /\ lstarted["b"] = NoStart
  /\ lstarted["c"] = [has |-> TRUE, t |-> LookbackTs]
  /\ {x.id : x \in ltab0} = Ids
  /\ {x.id : x \in ltab} = {"b", "c"}

\* C34: when the configured list of OCIDs (ADB_OCIDS of adb_backup,
\* DBCS_OCIDS of dbcs_backup, INSTANCE_OCIDS of instance_volume) is empty,
\* the run never inserts, updates or deletes a row: at every moment of the
\* run the tables hold the rows from before the run, nothing has been
\* marked seen, and the run does not fail in the loop or the sweep.
C34_EmptyListKeepsRows ==
  gtargets = <<>> =>
    /\ gtab = gtab0
    /\ gseen = {}
    /\ gpc \notin {"loop", "sweep"}

\* C34 witness: instance_volume has run to its end with an empty list of
\* instances, through the set-up of the connection and the tables, over
\* tables that hold rows
C34_Witness ==
  /\ gscript = "instance_volume"
  /\ gtargets = <<>>
  /\ gpc = "done"
  /\ gtab0.vol # {}
  /\ gtab = gtab0

\* C35: after a successful run of filesystem_list every row of a file system
\* whose latest_snapshot_id is not NULL refers to a row of oci_fss_snapshots
\* of that file system, and no snapshot row of the file system has a
\* greater time_created.
C35_LatestSnapshotRow ==
  fpc = "done" =>
    \A f \in ftab.fs :
      flatest[f] # "null" =>
        /\ flatest[f] \in ftab.snap
        /\ FssParent(flatest[f]) = f
        /\ \A s \in ftab.snap :
             FssParent(s) = f => SnapRank(s) <= SnapRank(flatest[f])

\* C35 witness: a run has succeeded that listed both snapshots of f1; the
\* row of f1 refers to s2, the younger one, and both snapshots have rows
C35_Witness ==
  /\ fpc = "done"
  /\ "f1" \in ftab.fs
  /\ flatest["f1"] = "s2"
  /\ {"s1", "s2"} \subseteq ftab.snap

\* a run is under way, and a run has ended: main() has returned after the
\* sweep, or an exception has left it
RunUnderWay ==
  \/ pc \in {"list", "upsert", "sweep"}
  \/ fpc \in {"unit", "fs", "mt", "sweep"}
RunEnded ==
  \/ pc \in {"done", "failed"}
  \/ fpc \in {"done", "failed"}

\* C36: every run terminates.  A run that is under way always comes to its
\* end, the completion after its sweep or the abort by an error, whatever
\* the listing calls are answered: no HTTP 429 makes a loop request again,
\* and the loop over the pages of dbcs_backup ends with the last page.
C36_RunTerminates == RunUnderWay ~> RunEnded

\* C36 witness: a run of adb_list has completed although the listing of
\* both compartments was answered HTTP 429
C36_Witness ==
  /\ script = "adb_list"
  /\ pc = "done"
  /\ swept
  /\ \A k \in 1..Len(Targets) : calls[Targets[k]].slept

====
